---------------------------- MODULE Spec2Model ----------------------------
(***************************************************************************)
(* A model of swi-tools' signature embedding and verification engine:      *)
(*   switools/crc32collision.py  - CRC32 forcing (crcfix, matchingBytes)   *)
(*   switools/swisignature.py    - record codec, prepareSwi, signSwi       *)
(*   switools/verifyswi.py       - record decoding, verifySwi              *)
(*                                                                         *)
(* Bytes are integers 0..255 and files are sequences of bytes.  A 32-bit   *)
(* unsigned integer is kept as two 16-bit halves, [hi, lo], so that every  *)
(* shift, mask and exclusive-or of the source is computed at width 32.     *)
(***************************************************************************)
EXTENDS Integers, Sequences, FiniteSets, TLC

VARIABLES
  fs,        \* the container files: path -> [exists, data]
  sigFile,   \* the signature file handed to signSwi: [exists, data], text
  oracle,    \* the signatures made so far: set of [key, msg]
  stage,     \* history: path -> what was last done to the container
  call,      \* the last operation and its inputs
  ret        \* the outcome of the last operation

vars == <<fs, sigFile, oracle, stage, call, ret>>

---------------------------------------------------------------------------
(* 32-bit unsigned arithmetic                                              *)

Byte == 0..255

RECURSIVE XorBits(_, _, _)
XorBits(a, b, n) ==
  IF n = 0 THEN 0
  ELSE ((a + b) % 2) + 2 * XorBits(a \div 2, b \div 2, n - 1)

NibbleXor == [a \in 0..15 |-> [b \in 0..15 |-> XorBits(a, b, 4)]]

ByteXor(a, b) ==
  16 * NibbleXor[a \div 16][b \div 16] + NibbleXor[a % 16][b % 16]

HalfXor(a, b) ==
  256 * ByteXor(a \div 256, b \div 256) + ByteXor(a % 256, b % 256)

U32(h, l) == [hi |-> h, lo |-> l]

IsU32(w) == w.hi \in 0..65535 /\ w.lo \in 0..65535

\* a ^ b
Xor32(a, b) == U32(HalfXor(a.hi, b.hi), HalfXor(a.lo, b.lo))

\* a >> 1
Shr1(a) == U32(a.hi \div 2, (a.lo \div 2) + 32768 * (a.hi % 2))

\* a >> 8
Shr8(a) == U32(a.hi \div 256, (a.lo \div 256) + 256 * (a.hi % 256))

\* a & 1
Bit0(a) == a.lo % 2

\* ( a >> ( i * 8 ) ) & 0xff, i in 0..3
ByteOf(a, i) ==
  CASE i = 0 -> a.lo % 256
    [] i = 1 -> a.lo \div 256
    [] i = 2 -> a.hi % 256
    [] i = 3 -> a.hi \div 256

Zero32 == U32(0, 0)
Ones32 == U32(65535, 65535)          \* 0xffffffff

---------------------------------------------------------------------------
(* binascii.crc32( data ) & 0xffffffff  (zlib's table-driven CRC-32)       *)

CRCPOLY == U32(\hedb8, \h8320)       \* 0xedb88320
CRCINV == U32(\h5b35, \h8fd3)        \* 0x5b358fd3

RECURSIVE CrcTableEntry(_, _)
CrcTableEntry(c, k) ==
  IF k = 0 THEN c
  ELSE CrcTableEntry(IF Bit0(c) = 1 THEN Xor32(Shr1(c), CRCPOLY) ELSE Shr1(c),
                     k - 1)

CrcTable == [n \in Byte |-> CrcTableEntry(U32(0, n), 8)]

\* the loop of zlib's crc32 over data[lo..hi], from the register c; the loop
\* is evaluated by halves, the first half before the second
RECURSIVE CrcUpdate(_, _, _, _)
CrcUpdate(c, data, lo, hi) ==
  IF lo > hi THEN c
  ELSE IF lo = hi
    THEN Xor32(CrcTable[ByteXor(c.lo % 256, data[lo])], Shr8(c))
  ELSE LET mid == (lo + hi) \div 2
           first == CrcUpdate(c, data, lo, mid)
       IN IF IsU32(first) THEN CrcUpdate(first, data, mid + 1, hi) ELSE first

crc32(data) == Xor32(CrcUpdate(Ones32, data, 1, Len(data)), Ones32)

\* the value of a local variable: The({ e : x \in {v} }) is e with x bound to v
The(S) == CHOOSE v \in S : TRUE

---------------------------------------------------------------------------
(* switools/crc32collision.py                                              *)

\* the body of crcfix's loop, run n more times
RECURSIVE crcfixLoop(_, _, _)
crcfixLoop(newCrc, toMatch, n) ==
  IF n = 0 THEN newCrc
  ELSE LET shifted == IF Bit0(newCrc) # 0 THEN Xor32(Shr1(newCrc), CRCPOLY)
                      ELSE Shr1(newCrc)
           again(fixed, rest) ==
             IF IsU32(fixed) /\ IsU32(rest) THEN crcfixLoop(fixed, rest, n - 1)
             ELSE fixed
       IN again(IF Bit0(toMatch) # 0 THEN Xor32(shifted, CRCINV) ELSE shifted,
                Shr1(toMatch))

crcfixBroken(toMatch, toChange) ==
  crcfixLoop(Zero32, Xor32(toMatch, Ones32), 32)

crcfix(toMatch, toChange) ==
  Xor32(crcfixLoop(Zero32, Xor32(toMatch, Ones32), 32),
        Xor32(toChange, Ones32))

checkCrc32Value(crc) == IsU32(crc)

matchingBytes(crcToMatch, crcToChange) ==
  LET crcBytes(bytesToMatch) == [i \in 1..4 |-> ByteOf(bytesToMatch, i - 1)]
  IN crcBytes(crcfix(crcToMatch, crcToChange))

---------------------------------------------------------------------------
(* Text.  A Python str is a sequence of code points, a bytes object a      *)
(* sequence of bytes; encode() and decode() are UTF-8.                     *)

NL == 10          \* "\n"
COLON == 58       \* ":"
STAR == 42        \* "*"
PAD == 61         \* "="

KEY_HashAlgorithm == <<72, 97, 115, 104, 65, 108, 103, 111, 114, 105, 116, 104, 109>>
KEY_IssuerCert == <<73, 115, 115, 117, 101, 114, 67, 101, 114, 116>>
KEY_Signature == <<83, 105, 103, 110, 97, 116, 117, 114, 101>>
KEY_Version == <<86, 101, 114, 115, 105, 111, 110>>
KEY_Padding == <<80, 97, 100, 100, 105, 110, 103>>
KEY_CRCPadding == <<67, 82, 67, 80, 97, 100, 100, 105, 110, 103>>

Repeat(c, n) == [i \in 1..n |-> c]

At(s, i) == IF i \in 1..Len(s) THEN s[i] ELSE -1

\* str( n ) for n >= 0
RECURSIVE DecStr(_)
DecStr(n) == IF n < 10 THEN <<48 + n>> ELSE DecStr(n \div 10) \o <<48 + (n % 10)>>

\* the UTF-8 encoding of one code point
Utf8EncodeChar(c) ==
  IF c < 128 THEN <<c>>
  ELSE IF c < 2048 THEN <<192 + (c \div 64), 128 + (c % 64)>>
  ELSE IF c < 65536
    THEN <<224 + (c \div 4096), 128 + ((c \div 64) % 64), 128 + (c % 64)>>
  ELSE <<240 + (c \div 262144), 128 + ((c \div 4096) % 64),
         128 + ((c \div 64) % 64), 128 + (c % 64)>>

RECURSIVE Utf8EncodeRange(_, _, _)
Utf8EncodeRange(s, lo, hi) ==
  IF lo > hi THEN <<>>
  ELSE IF lo = hi THEN Utf8EncodeChar(s[lo])
  ELSE LET mid == (lo + hi) \div 2
       IN Utf8EncodeRange(s, lo, mid) \o Utf8EncodeRange(s, mid + 1, hi)

\* str.encode(): UTF-8
Utf8Encode(s) == Utf8EncodeRange(s, 1, Len(s))

IsCont(b) == b \in 128..191

\* length of the well-formed UTF-8 sequence that starts at data[i], 0 if none
Utf8SeqLen(data, i) ==
  LET b0 == At(data, i)
      b1 == At(data, i + 1)
      b2 == At(data, i + 2)
      b3 == At(data, i + 3)
  IN IF b0 < 128 THEN 1
     ELSE IF b0 \in 194..223 /\ IsCont(b1) THEN 2
     ELSE IF b0 = 224 /\ b1 \in 160..191 /\ IsCont(b2) THEN 3
     ELSE IF b0 \in (225..236) \cup {238, 239} /\ IsCont(b1) /\ IsCont(b2) THEN 3
     ELSE IF b0 = 237 /\ b1 \in 128..159 /\ IsCont(b2) THEN 3
     ELSE IF b0 = 240 /\ b1 \in 144..191 /\ IsCont(b2) /\ IsCont(b3) THEN 4
     ELSE IF b0 \in 241..243 /\ IsCont(b1) /\ IsCont(b2) /\ IsCont(b3) THEN 4
     ELSE IF b0 = 244 /\ b1 \in 128..143 /\ IsCont(b2) /\ IsCont(b3) THEN 4
     ELSE 0

HexDigit(n) == IF n < 10 THEN 48 + n ELSE 87 + n

\* one step of bytes.decode( "utf-8", "backslashreplace" ) at data[i]: st.out
\* is the text so far and st.next the index of the next byte to decode
Utf8DecodeStep(st, data, i) ==
  IF i < st.next THEN st
  ELSE LET b0 == data[i]
           decoded(n) ==
            CASE n = 0 -> [out |-> st.out \o <<92, 120, HexDigit(b0 \div 16),
                                              HexDigit(b0 % 16)>>,
                         next |-> i + 1]
            [] n = 1 -> [out |-> st.out \o <<b0>>, next |-> i + 1]
            [] n = 2 -> [out |-> st.out \o <<(b0 - 192) * 64 + (data[i + 1] - 128)>>,
                         next |-> i + 2]
            [] n = 3 -> [out |-> st.out \o <<(b0 - 224) * 4096
                                             + (data[i + 1] - 128) * 64
                                             + (data[i + 2] - 128)>>,
                         next |-> i + 3]
            [] n = 4 -> [out |-> st.out \o <<(b0 - 240) * 262144
                                             + (data[i + 1] - 128) * 4096
                                             + (data[i + 2] - 128) * 64
                                             + (data[i + 3] - 128)>>,
                         next |-> i + 4]
       IN decoded(Utf8SeqLen(data, i))

\* the steps at data[lo..hi], the first half before the second
RECURSIVE Utf8DecodeRange(_, _, _, _)
Utf8DecodeRange(st, data, lo, hi) ==
  IF lo > hi THEN st
  ELSE IF lo = hi THEN Utf8DecodeStep(st, data, lo)
  ELSE LET mid == (lo + hi) \div 2
           first == Utf8DecodeRange(st, data, lo, mid)
       IN IF first.next > 0 THEN Utf8DecodeRange(first, data, mid + 1, hi) ELSE first

\* bytes.decode( "utf-8", "backslashreplace" )
Utf8Decode(data) ==
  Utf8DecodeRange([out |-> <<>>, next |-> 1], data, 1, Len(data)).out

\* str.isspace() of one character
IsSpaceStr(c) ==
  c \in (9..13) \cup (28..32) \cup {133, 160, 5760} \cup (8192..8202)
        \cup {8232, 8233, 8239, 8287, 12288}

\* the whitespace bytes.strip() removes
IsSpaceBytes(b) == b \in (9..13) \cup {32}

StrStrip(s) ==
  LET keep == {i \in 1..Len(s) : ~IsSpaceStr(s[i])}
  IN IF keep = {} THEN <<>>
     ELSE LET lo == CHOOSE i \in keep : \A j \in keep : i <= j
              hi == CHOOSE i \in keep : \A j \in keep : i >= j
          IN SubSeq(s, lo, hi)

BytesStrip(s) ==
  LET keep == {i \in 1..Len(s) : ~IsSpaceBytes(s[i])}
  IN IF keep = {} THEN <<>>
     ELSE LET lo == CHOOSE i \in keep : \A j \in keep : i <= j
              hi == CHOOSE i \in keep : \A j \in keep : i >= j
          IN SubSeq(s, lo, hi)

\* the k-th smallest element of the set of integers P
Nth(P, k) == CHOOSE p \in P : Cardinality({q \in P : q < p}) = k - 1

\* s.split( sep ): the parts of s between the occurrences of sep
Split(s, sep) ==
  LET cuts == {0, Len(s) + 1} \cup {i \in 1..Len(s) : s[i] = sep}
  IN [k \in 1..(Cardinality(cuts) - 1) |->
        SubSeq(s, Nth(cuts, k) + 1, Nth(cuts, k + 1) - 1)]

\* the lines a binary file object yields: each ends with its "\n", but the last
Lines(data) ==
  LET ends == {0} \cup {i \in 1..Len(data) : data[i] = NL \/ i = Len(data)}
  IN [k \in 1..(Cardinality(ends) - 1) |->
        SubSeq(data, Nth(ends, k) + 1, Nth(ends, k + 1))]

---------------------------------------------------------------------------
(* base64 (the base64 and binascii modules)                                *)

B64Char(n) ==
  IF n < 26 THEN 65 + n
  ELSE IF n < 52 THEN 97 + (n - 26)
  ELSE IF n < 62 THEN 48 + (n - 52)
  ELSE IF n = 62 THEN 43 ELSE 47

\* table_a2b_base64: 64 for a character outside the alphabet
B64Index(c) ==
  IF c \in 65..90 THEN c - 65
  ELSE IF c \in 97..122 THEN c - 97 + 26
  ELSE IF c \in 48..57 THEN c - 48 + 52
  ELSE IF c = 43 THEN 62
  ELSE IF c = 47 THEN 63
  ELSE 64

\* base64.b64encode / standard_b64encode, as text
RECURSIVE b64encode(_)
b64encode(data) ==
  IF data = <<>> THEN <<>>
  ELSE IF Len(data) = 1
    THEN <<B64Char(data[1] \div 4), B64Char((data[1] % 4) * 16), PAD, PAD>>
  ELSE IF Len(data) = 2
    THEN <<B64Char(data[1] \div 4),
           B64Char((data[1] % 4) * 16 + (data[2] \div 16)),
           B64Char((data[2] % 16) * 4), PAD>>
  ELSE <<B64Char(data[1] \div 4),
         B64Char((data[1] % 4) * 16 + (data[2] \div 16)),
         B64Char((data[2] % 16) * 4 + (data[3] \div 64)),
         B64Char(data[3] % 64)>> \o b64encode(SubSeq(data, 4, Len(data)))

\* one character c of binascii.a2b_base64 (not strict): a character outside
\* the alphabet is skipped and a complete pad sequence ends the parse (done)
a2bStep(st, c) ==
  IF st.done THEN st
  ELSE IF c = PAD
    THEN IF st.quadPos >= 2 /\ st.quadPos + st.pads + 1 >= 4
           THEN [st EXCEPT !.done = TRUE]
         ELSE IF st.quadPos >= 2 THEN [st EXCEPT !.pads = @ + 1] ELSE st
  ELSE LET ch == B64Index(c)
       IN IF ch >= 64 THEN st
          ELSE CASE st.quadPos = 0 ->
                      [st EXCEPT !.quadPos = 1, !.leftchar = ch, !.pads = 0]
                 [] st.quadPos = 1 ->
                      [st EXCEPT !.quadPos = 2, !.leftchar = ch % 16, !.pads = 0,
                                 !.out = Append(@, st.leftchar * 4 + (ch \div 16))]
                 [] st.quadPos = 2 ->
                      [st EXCEPT !.quadPos = 3, !.leftchar = ch % 4, !.pads = 0,
                                 !.out = Append(@, st.leftchar * 16 + (ch \div 4))]
                 [] st.quadPos = 3 ->
                      [st EXCEPT !.quadPos = 0, !.leftchar = 0, !.pads = 0,
                                 !.out = Append(@, st.leftchar * 64 + ch)]

\* the characters s[lo..hi], the first half before the second
RECURSIVE a2bRange(_, _, _, _)
a2bRange(st, s, lo, hi) ==
  IF lo > hi THEN st
  ELSE IF lo = hi THEN a2bStep(st, s[lo])
  ELSE LET mid == (lo + hi) \div 2
           first == a2bRange(st, s, lo, mid)
       IN IF first.quadPos >= 0 THEN a2bRange(first, s, mid + 1, hi) ELSE first

\* binascii.a2b_base64: a quad left open at the end of the input is
\* binascii.Error (ok = FALSE)
a2b_base64(s) ==
  LET result(st) == [ok |-> st.done \/ st.quadPos = 0, data |-> st.out]
  IN result(a2bRange([quadPos |-> 0, leftchar |-> 0, pads |-> 0, out |-> <<>>,
                      done |-> FALSE], s, 1, Len(s)))

IsAscii(s) == \A i \in 1..Len(s) : s[i] < 128

\* base64.b64decode( text ) of a str: ValueError when the text is not ASCII,
\* binascii.Error when it does not decode
b64decode(text) ==
  IF ~IsAscii(text) THEN [exc |-> "ValueError", data |-> <<>>]
  ELSE LET result(r) == IF r.ok THEN [exc |-> "", data |-> r.data]
                        ELSE [exc |-> "binascii.Error", data |-> <<>>]
       IN result(a2b_base64(text))

---------------------------------------------------------------------------
(* Outcomes.  A function of the program either returns (exc = "") or       *)
(* raises the exception named in exc; code is the code a SwiSignException  *)
(* or an X509CertException carries.                                        *)

SIGN_SUCCESS == 0
ALREADY_SIGNED == 1
ERROR_FAIL_VERIFICATION == 2
ERROR_NO_NULL_SIG == 3
SIGN_ERROR_NOT_A_SWI == 4
ERROR_INPUT_FILES == 5
ERROR_SIGNATURE_INSERTION_FAILED == 9

VERIFY_SUCCESS == 0
ERROR_SIGNATURE_FILE == 3
ERROR_VERIFICATION == 4
ERROR_HASH_ALGORITHM == 5
ERROR_SIGNATURE_FORMAT == 6
VERIFY_ERROR_NOT_A_SWI == 7
ERROR_CERT_MISMATCH == 8
ERROR_INVALID_SIGNING_CERT == 9
ERROR_INVALID_ROOT_CERT == 10

VERIFY_SWI_RESULT ==
  {VERIFY_SUCCESS, ERROR_SIGNATURE_FILE, ERROR_VERIFICATION,
   ERROR_HASH_ALGORITHM, ERROR_SIGNATURE_FORMAT, VERIFY_ERROR_NOT_A_SWI,
   ERROR_CERT_MISMATCH, ERROR_INVALID_SIGNING_CERT, ERROR_INVALID_ROOT_CERT}

Raise(e, c) == [exc |-> e, code |-> c]
SwiSignException(c) == Raise("SwiSignException", c)
X509CertException(c) == Raise("X509CertException", c)
NoCode == -1

---------------------------------------------------------------------------
(* switools/swisignature.py: class SwiSignature                            *)

SIGN_VERSION == 1
SIGN_HASH == <<83, 72, 65, 45, 50, 53, 54>>       \* "SHA-256"

\* SwiSignature.__init__ followed by the assignments of signSwi
NewSwiSignature(size, hash, cert, signature) ==
  [version |-> SIGN_VERSION, hash |-> hash, cert |-> cert,
   signature |-> signature, crcpadding |-> <<0, 0, 0, 0>>, size |-> size]

\* the text of the record up to and including "Padding:"
ReprHead(sig) ==
  KEY_HashAlgorithm \o <<COLON>> \o sig.hash \o <<NL>>
  \o KEY_IssuerCert \o <<COLON>> \o sig.cert \o <<NL>>
  \o KEY_Signature \o <<COLON>> \o sig.signature \o <<NL>>
  \o KEY_Version \o <<COLON>> \o DecStr(sig.version) \o <<NL>>
  \o KEY_Padding \o <<COLON>>

\* "CRCPadding:" followed by one character for each crc padding byte
ReprCrcPadding(sig) ==
  KEY_CRCPadding \o <<COLON>> \o [i \in 1..Len(sig.crcpadding) |-> sig.crcpadding[i] % 256]

paddingAmtNoNewline(sig) == sig.size - Len(ReprHead(sig)) - Len(ReprCrcPadding(sig))

paddingAmt(sig) == sig.size - Len(ReprHead(sig)) - Len(ReprCrcPadding(sig)) - 1

\* SwiSignature.__repr__: the text, or SwiSignException( ERROR_INPUT_FILES )
\* whose message states abs( paddingAmt ) and size - paddingAmt
SwiSignature_repr(sig) ==
  LET checked(data) ==
        IF Len(data) = sig.size - Len(sig.crcpadding)
          THEN [exc |-> "", code |-> NoCode, data |-> data,
                exceeds |-> 0, atLeast |-> sig.size]
        ELSE [exc |-> "AssertionError", code |-> NoCode, data |-> <<>>,
              exceeds |-> 0, atLeast |-> sig.size]
      padded(amt) ==
        IF amt < 0
          THEN [exc |-> "SwiSignException", code |-> ERROR_INPUT_FILES,
                data |-> <<>>, exceeds |-> -amt, atLeast |-> sig.size - amt]
        ELSE checked(ReprHead(sig) \o Repeat(STAR, amt) \o <<NL>>
                     \o KEY_CRCPadding \o <<COLON>>)
  IN padded(paddingAmt(sig))

\* SwiSignature.getBytes
getBytes(sig) ==
  LET encoded(r) ==
        IF r.exc # "" THEN r
        ELSE [r EXCEPT !.data = Utf8Encode(r.data)
                          \o [i \in 1..Len(sig.crcpadding) |-> sig.crcpadding[i] % 256]]
  IN encoded(SwiSignature_repr(sig))

---------------------------------------------------------------------------
(* switools/verifyswi.py: class SwiSignature, base64Decode                 *)

\* base64Decode: binascii.Error is turned into the empty value; ValueError
\* (text that is not ASCII) is not caught
base64Decode(text) ==
  LET caught(r) == IF r.exc = "binascii.Error" THEN [exc |-> "", data |-> <<>>] ELSE r
  IN caught(b64decode(text))

EmptyFields ==
  [exc |-> "", version |-> <<>>, hashAlgo |-> <<>>, cert |-> <<>>,
   signature |-> <<>>]

\* the body of updateFields' loop for one line
updateLineStrict(f, line) ==
  LET setCert(d) == IF d.exc # "" THEN [f EXCEPT !.exc = d.exc]
                    ELSE [f EXCEPT !.cert = d.data]
      setSignature(d) == IF d.exc # "" THEN [f EXCEPT !.exc = d.exc]
                         ELSE [f EXCEPT !.signature = d.data]
      keyValue(key, val) ==
        CASE key = KEY_Version -> [f EXCEPT !.version = val]
          [] key = KEY_HashAlgorithm -> [f EXCEPT !.hashAlgo = val]
          [] key = KEY_IssuerCert -> setCert(base64Decode(val))
          [] key = KEY_Signature -> setSignature(base64Decode(val))
          [] OTHER -> f
      split(data) == IF Len(data) # 2 THEN f
                     ELSE keyValue(data[1], StrStrip(data[2]))
  IN IF \E i \in 1..Len(line) : line[i] > 127
       THEN [f EXCEPT !.exc = "UnicodeDecodeError"]
     ELSE split(Split(Utf8Decode(line), COLON))

updateLine(f, line) ==
  LET setCert(d) == IF d.exc # "" THEN [f EXCEPT !.exc = d.exc]
                    ELSE [f EXCEPT !.cert = d.data]
      setSignature(d) == IF d.exc # "" THEN [f EXCEPT !.exc = d.exc]
                         ELSE [f EXCEPT !.signature = d.data]
      keyValue(key, val) ==
        CASE key = KEY_Version -> [f EXCEPT !.version = val]
          [] key = KEY_HashAlgorithm -> [f EXCEPT !.hashAlgo = val]
          [] key = KEY_IssuerCert -> setCert(base64Decode(val))
          [] key = KEY_Signature -> setSignature(base64Decode(val))
          [] OTHER -> f
      split(data) == IF Len(data) # 2 THEN f
                     ELSE keyValue(data[1], StrStrip(data[2]))
  IN split(Split(Utf8Decode(line), COLON))

RECURSIVE updateLines(_, _, _)
updateLines(f, lines, i) ==
  IF i > Len(lines) \/ f.exc # "" THEN f
  ELSE updateLines(updateLine(f, lines[i]), lines, i + 1)

\* SwiSignature.updateFields over the bytes of the signature member
updateFields(data) == updateLines(EmptyFields, Lines(data), 1)

verifySignatureFormatVersion(sig) == Len(sig.cert) # 0 /\ Len(sig.hashAlgo) # 0 /\ Len(sig.signature) # 0 /\ sig.version = <<49>>

verifySignatureFormatCertOnly(sig) == Len(sig.cert) # 0

verifySignatureFormat(sig) ==
  Len(sig.cert) # 0 /\ Len(sig.hashAlgo) # 0 /\ Len(sig.signature) # 0

getHashAlgo(sig) == IF sig.hashAlgo = SIGN_HASH THEN "sha256" ELSE "None"

---------------------------------------------------------------------------
(* Files.  A file is [exists, data]; the certificate, key and root files   *)
(* are fixed, the containers and the signature file change.                *)

File(data) == [exists |-> TRUE, data |-> data]
NoFile == [exists |-> FALSE, data |-> <<>>]

\* file.seek( offset ); file.write( data ) on a file opened "r+b"
PatchFileTruncating(f, offset, data) == File(SubSeq(f.data, 1, offset) \o data)

PatchFile(f, offset, data) ==
  LET old == f.data
      n == IF Len(old) > offset + Len(data) THEN Len(old) ELSE offset + Len(data)
  IN File([i \in 1..n |->
             IF i > offset /\ i <= offset + Len(data) THEN data[i - offset]
             ELSE IF i <= Len(old) THEN old[i] ELSE 0])

---------------------------------------------------------------------------
(* M2Crypto X509 and EVP.  Keys are named by small numbers; a certificate  *)
(* is the three bytes <<CERT_MAGIC, subject key, issuer key>>, and it is   *)
(* taken to carry a valid signature of the issuer key.  SHA-256 is         *)
(* collision free: the digest is the hashed byte sequence itself.  A       *)
(* signature is unforgeable: the pairs [key, digest] that were signed are  *)
(* kept in a set, and a value verifies only against a key and a digest     *)
(* that were signed and only if it is the value signing gave.              *)

CERT_MAGIC == 67
K_SIGN == 1          \* the key of the signing certificate
K_ROOT == 2          \* the key of the root certificate
K_ARISTA == 3        \* the key of the compiled-in ARISTA_ROOT_CA.crt

SigningCert == <<CERT_MAGIC, K_SIGN, K_ROOT>>
RootCert == <<CERT_MAGIC, K_ROOT, K_ROOT>>
ROOT_CA == <<CERT_MAGIC, K_ARISTA, K_ARISTA>>
ROOT_CA_FILE_NAME == "ARISTA_ROOT_CA.crt"

StaticFiles ==
  [p \in {"signing.crt", "root.crt", "bad.crt", "signing.key"} |->
     CASE p = "signing.crt" -> File(SigningCert \o <<NL>>)
       [] p = "root.crt" -> File(RootCert \o <<NL>>)
       [] p = "bad.crt" -> File(<<98, 97, 100, NL>>)
       [] p = "signing.key" -> File(<<K_SIGN>>)]

ReadStatic(p) == IF p \in DOMAIN StaticFiles THEN StaticFiles[p] ELSE NoFile

\* X509.load_cert_string: X509Error unless the bytes are a certificate
load_cert_string(pem) ==
  LET c == BytesStrip(pem)
  IN IF Len(c) = 3 /\ c[1] = CERT_MAGIC
       THEN [exc |-> "", subject |-> c[2], issuer |-> c[3]]
     ELSE [exc |-> "X509Error", subject |-> 0, issuer |-> 0]

\* X509.load_cert: IOError when the file cannot be opened
load_cert(path) ==
  LET f == ReadStatic(path)
  IN IF ~f.exists THEN [exc |-> "IOError", subject |-> 0, issuer |-> 0]
     ELSE load_cert_string(f.data)

\* cert.verify( pubkey ) = 1
CertVerifies(cert, pubkey) == cert.issuer = pubkey

sha256(data) == data

\* the signatures made so far, after key signed digest
OracleAfter(orc, key, digest) == orc \cup {[key |-> key, msg |-> digest]}

\* key.sign_final(): the signature value; signing is deterministic
SignatureValue(key, digest) == <<key, Len(digest) % 256>>

\* pubkey.verify_final( signature ) = 1
verify_final(orc, pubkey, digest, signature) ==
  /\ [key |-> pubkey, msg |-> digest] \in orc
  /\ signature = SignatureValue(pubkey, digest)

---------------------------------------------------------------------------
(* The zip container, at reduced scale.  Member names are one byte; every  *)
(* member is laid out as a local header <<LOCAL_MAGIC, name>> followed by  *)
(* its data; the central directory holds one 10-byte entry per member      *)
(*   <<CENTRAL_MAGIC, name, method, crc (4 bytes, little endian),          *)
(*     compress_size, file_size, header_offset>>                           *)
(* and the file ends with the end record <<END_MAGIC, count, directory     *)
(* offset>>.  The operators below are zipfile's and zip's behaviour on     *)
(* that layout.                                                            *)

LOCAL_MAGIC == 3         \* "PK\003\004"
CENTRAL_MAGIC == 1       \* "PK\001\002"
END_MAGIC == 5           \* "PK\005\006"
LOCAL_SIZE == 2
CENTRAL_SIZE == 10
END_SIZE == 3
ZIP_STORED == 0

NAME_version == 118            \* "version"
SWI_SIG_FILE_NAME == 115       \* "swi-signature"
SWIX_SIG_FILE_NAME == 120      \* "swix-signature"

\* swiFile.lower().endswith( ".swix" )
IsSwixPath(path) == path \in {"EOS.swix", "out.swix"}

getSigFileNameSwi(path) == SWI_SIG_FILE_NAME

getSigFileName(path) ==
  IF IsSwixPath(path) THEN SWIX_SIG_FILE_NAME ELSE SWI_SIG_FILE_NAME

\* zipfile.is_zipfile: the file can be opened and ends with an end record
is_zipfile(f) ==
  /\ f.exists
  /\ Len(f.data) >= END_SIZE
  /\ f.data[Len(f.data) - END_SIZE + 1] = END_MAGIC

CrcOfBytes(b0, b1, b2, b3) == U32(b3 * 256 + b2, b1 * 256 + b0)

CentralEntry(data, at) ==
  [name |-> data[at + 2], method |-> data[at + 3],
   crc |-> CrcOfBytes(data[at + 4], data[at + 5], data[at + 6], data[at + 7]),
   compress_size |-> data[at + 8], file_size |-> data[at + 9],
   header_offset |-> data[at + 10]]

\* zipfile.ZipFile( f, 'r' ): the member infos, or BadZipFile
ZipFile(f) ==
  LET data == f.data
      dirStart == data[Len(data)]
      dirLen == Len(data) - END_SIZE - dirStart
      n == dirLen \div CENTRAL_SIZE
  IN IF \/ dirLen < 0
        \/ dirLen % CENTRAL_SIZE # 0
        \/ \E k \in 0..(n - 1) : data[dirStart + k * CENTRAL_SIZE + 1] # CENTRAL_MAGIC
       THEN [exc |-> "BadZipFile", infos |-> <<>>]
     ELSE [exc |-> "",
           infos |-> [k \in 1..n |-> CentralEntry(data, dirStart + (k - 1) * CENTRAL_SIZE)]]

namelist(zf) == {zf.infos[k].name : k \in 1..Len(zf.infos)}

\* ZipFile.getinfo( name ), for a name in namelist: the last entry of that name
getinfo(zf, name) ==
  LET ks == {k \in 1..Len(zf.infos) : zf.infos[k].name = name}
  IN zf.infos[CHOOSE k \in ks : \A j \in ks : j <= k]

\* ZipFile.open( info ): reads the local header; tell is where the member's
\* data starts
ZipOpen(f, info) ==
  LET data == f.data
      at == info.header_offset
  IN IF at + LOCAL_SIZE > Len(data) \/ data[at + 1] # LOCAL_MAGIC
          \/ data[at + 2] # info.name
       THEN [exc |-> "BadZipFile", tell |-> 0]
     ELSE IF info.method # ZIP_STORED
       THEN [exc |-> "NotImplementedError", tell |-> 0]
     ELSE [exc |-> "", tell |-> at + LOCAL_SIZE]

Min(a, b) == IF a < b THEN a ELSE b

\* reading an opened stored member to its end: EOFError when the file ends
\* first, BadZipFile when the bytes read do not have the recorded CRC
ZipRead(f, info, tell) ==
  LET n == Min(info.compress_size, info.file_size)
  IN IF tell + n > Len(f.data) THEN [exc |-> "EOFError", data |-> <<>>]
     ELSE LET d == SubSeq(f.data, tell + 1, tell + n)
          IN IF crc32(d) # info.crc THEN [exc |-> "BadZipFile", data |-> <<>>]
             ELSE [exc |-> "", data |-> d]

\* a member as zip holds it
Member(name, data) ==
  [name |-> name, method |-> ZIP_STORED, crc |-> crc32(data),
   compress_size |-> Len(data), file_size |-> Len(data), data |-> data]

RECURSIVE LocalPart(_)
LocalPart(ms) ==
  IF ms = <<>> THEN <<>>
  ELSE <<LOCAL_MAGIC, Head(ms).name>> \o Head(ms).data \o LocalPart(Tail(ms))

RECURSIVE CentralPart(_, _)
CentralPart(ms, at) ==
  IF ms = <<>> THEN <<>>
  ELSE LET m == Head(ms)
       IN <<CENTRAL_MAGIC, m.name, m.method, ByteOf(m.crc, 0), ByteOf(m.crc, 1),
            ByteOf(m.crc, 2), ByteOf(m.crc, 3), m.compress_size, m.file_size, at>>
          \o CentralPart(Tail(ms), at + LOCAL_SIZE + Len(m.data))

\* the archive zip writes for a sequence of members
ZipBytes(ms) ==
  LET loc == LocalPart(ms)
  IN loc \o CentralPart(ms, 0) \o <<END_MAGIC, Len(ms), Len(loc)>>

\* the members zip reads from an archive; ok = FALSE if it cannot read it
ZipMembers(f) ==
  LET member(i) ==
        [name |-> i.name, method |-> i.method, crc |-> i.crc,
         compress_size |-> i.compress_size, file_size |-> i.file_size,
         data |-> SubSeq(f.data, i.header_offset + LOCAL_SIZE + 1,
                         i.header_offset + LOCAL_SIZE + i.compress_size)]
      members(zf) ==
        IF zf.exc # "" THEN [ok |-> FALSE, ms |-> <<>>]
        ELSE IF \E k \in 1..Len(zf.infos) :
                  \/ ZipOpen(f, zf.infos[k]).exc # ""
                  \/ zf.infos[k].header_offset + LOCAL_SIZE
                       + zf.infos[k].compress_size > Len(f.data)
          THEN [ok |-> FALSE, ms |-> <<>>]
        ELSE [ok |-> TRUE, ms |-> [k \in 1..Len(zf.infos) |-> member(zf.infos[k])]]
  IN IF ~is_zipfile(f) THEN [ok |-> FALSE, ms |-> <<>>]
     ELSE members(ZipFile(f))

SelectSeqNot(ms, name) == SelectSeq(ms, LAMBDA m : m.name # name)

\* zip -q -0 -X archive name: the member is stored at the end of the archive
\* (an older member of that name is replaced); exit code # 0 is ok = FALSE
ZipInsert(f, name, data) ==
  LET stored(r) ==
        IF ~r.ok THEN [ok |-> FALSE, file |-> f]
        ELSE [ok |-> TRUE,
              file |-> File(ZipBytes(Append(SelectSeqNot(r.ms, name),
                                            Member(name, data))))]
  IN stored(ZipMembers(f))

\* zip -dq archive name
ZipDelete(f, name) ==
  LET deleted(r) ==
        IF ~r.ok \/ ~(\E k \in 1..Len(r.ms) : r.ms[k].name = name)
          THEN [ok |-> FALSE, file |-> f]
        ELSE [ok |-> TRUE, file |-> File(ZipBytes(SelectSeqNot(r.ms, name)))]
  IN deleted(ZipMembers(f))

---------------------------------------------------------------------------
(* switools/verifyswi.py                                                   *)

BLOCK_SIZE == 4      \* 65536 in the source, reduced with the files

\* file.read( n ) at position pos
ReadAt(data, pos, n) == SubSeq(data, pos + 1, Min(pos + n, Len(data)))

\* the reads lo..hi of the loop below, the first half before the second; the
\* reads before the one that returns nothing return blockSize bytes, so read k
\* starts at pos + (k - 1) * blockSize
RECURSIVE ReadBlockRange(_, _, _, _, _)
ReadBlockRange(data, pos, blockSize, lo, hi) ==
  IF lo > hi THEN <<>>
  ELSE IF lo = hi THEN ReadAt(data, pos + (lo - 1) * blockSize, blockSize)
  ELSE ReadBlockRange(data, pos, blockSize, lo, (lo + hi) \div 2)
       \o ReadBlockRange(data, pos, blockSize, (lo + hi) \div 2 + 1, hi)

\* for block in iter( lambda: file.read( blockSize ), b'' ): the bytes fed by
\* the reads up to the first one that returns nothing
ReadBlocks(data, pos, blockSize) ==
  LET reads == IF pos < Len(data) THEN (Len(data) - pos + blockSize - 1) \div blockSize
               ELSE 0
  IN ReadBlockRange(data, pos, blockSize, 1, reads)

\* the rounds lo..hi of the while loop of swiSignatureValid, the first half
\* before the second: round k starts with offset + (k - 1) * BLOCK_SIZE bytes
\* counted and reads numBytes bytes where the file stands
RECURSIVE FeedRange(_, _, _, _, _, _)
FeedRange(data, pos, offset, sigOffset, lo, hi) ==
  IF lo > hi THEN <<>>
  ELSE IF lo = hi
    THEN LET counted == offset + (lo - 1) * BLOCK_SIZE
             numBytes == IF counted + BLOCK_SIZE < sigOffset THEN BLOCK_SIZE
                         ELSE sigOffset - counted
         IN ReadAt(data, Min(pos + (lo - 1) * BLOCK_SIZE, Len(data)), numBytes)
  ELSE FeedRange(data, pos, offset, sigOffset, lo, (lo + hi) \div 2)
       \o FeedRange(data, pos, offset, sigOffset, (lo + hi) \div 2 + 1, hi)

\* the while loop of swiSignatureValid: the bytes it feeds, from offset on,
\* and where the file stands afterwards
FeedHead(data, pos, offset, sigOffset) ==
  LET rounds == IF offset < sigOffset
                  THEN (sigOffset - offset + BLOCK_SIZE - 1) \div BLOCK_SIZE
                ELSE 0
  IN [fed |-> FeedRange(data, pos, offset, sigOffset, 1, rounds),
      pos |-> IF rounds = 0 THEN pos ELSE Min(pos + sigOffset - offset, Len(data))]

FedBytesNoSeek(data, sigOffset, sigSize) ==
  LET fed(head) ==
        head.fed \o Repeat(0, sigSize) \o ReadBlocks(data, head.pos, BLOCK_SIZE)
  IN fed(FeedHead(data, 0, 0, sigOffset))

\* everything swiSignatureValid passes to pubkey.verify_update
FedBytes(data, sigOffset, sigSize) ==
  LET fed(head) ==
        head.fed \o Repeat(0, sigSize)
        \o ReadBlocks(data, head.pos + sigSize, BLOCK_SIZE)
  IN fed(FeedHead(data, 0, 0, sigOffset))

\* getSwiSignatureData: None (none = TRUE) when the archive has no signature
\* member
getSwiSignatureData(path, f) ==
  LET nothing == [exc |-> "", none |-> FALSE, offset |-> 0, size |-> 0,
                  fields |-> EmptyFields]
      updated(sigInfo, sigFileObj, fields) ==
        [exc |-> fields.exc, none |-> FALSE, offset |-> sigFileObj.tell,
         size |-> sigInfo.compress_size, fields |-> fields]
  IN The({
       IF zf.exc # "" THEN [nothing EXCEPT !.exc = zf.exc]
       ELSE IF getSigFileName(path) \notin namelist(zf)
         THEN [nothing EXCEPT !.none = TRUE]
       ELSE The({
         The({
           IF sigFileObj.exc # "" THEN [nothing EXCEPT !.exc = sigFileObj.exc]
           ELSE The({
             IF content.exc # "" THEN [nothing EXCEPT !.exc = content.exc]
             ELSE updated(sigInfo, sigFileObj, updateFields(content.data))
             : content \in {ZipRead(f, sigInfo, sigFileObj.tell)} })
           : sigFileObj \in {ZipOpen(f, sigInfo)} })
         : sigInfo \in {getinfo(zf, getSigFileName(path))} })
       : zf \in {ZipFile(f)} })

loadSigningCert(fields) ==
  LET loaded(c) ==
        IF c.exc = "X509Error"
          THEN [c EXCEPT !.exc = "X509CertException"]
               @@ [code |-> ERROR_INVALID_SIGNING_CERT]
        ELSE c @@ [code |-> NoCode]
  IN loaded(load_cert_string(fields.cert))

signingCertValidAlways(signingCertX509, rootCAFile) ==
  [exc |-> "", code |-> VERIFY_SUCCESS]

\* signingCertValid: the result, or the exception raised
signingCertValid(signingCertX509, rootCAFile) ==
  LET verified(rootCa) ==
        IF rootCa.exc = "X509Error" THEN X509CertException(ERROR_INVALID_ROOT_CERT)
        ELSE IF rootCa.exc # "" THEN Raise(rootCa.exc, NoCode)
        ELSE IF CertVerifies(signingCertX509, rootCa.subject)
          THEN [exc |-> "", code |-> VERIFY_SUCCESS]
        ELSE [exc |-> "", code |-> ERROR_CERT_MISMATCH]
      chosen(dflt, given) ==
        IF dflt.exc # "" THEN dflt
        ELSE IF rootCAFile # ROOT_CA_FILE_NAME THEN given
        ELSE dflt
  IN verified(chosen(load_cert_string(ROOT_CA), load_cert(rootCAFile)))

swiSignatureValidUnchecked(f, sd, signingCertX509, orc) ==
  IF getHashAlgo(sd.fields) = "None" THEN ERROR_HASH_ALGORITHM ELSE VERIFY_SUCCESS

\* swiSignatureValid: the result
swiSignatureValid(f, sd, signingCertX509, orc) ==
  IF getHashAlgo(sd.fields) = "None" THEN ERROR_HASH_ALGORITHM
  ELSE IF verify_final(orc, signingCertX509.subject,
                       sha256(FedBytes(f.data, sd.offset, sd.size)),
                       sd.fields.signature)
    THEN VERIFY_SUCCESS
  ELSE ERROR_VERIFICATION

\* the try block of verifySwi
verifySwiTry(path, f, rootCA, orc) ==
  IF ~is_zipfile(f) THEN [exc |-> "", code |-> VERIFY_ERROR_NOT_A_SWI]
  ELSE The({
    IF sd.exc # "" THEN Raise(sd.exc, NoCode)
    ELSE IF sd.none THEN [exc |-> "", code |-> ERROR_SIGNATURE_FILE]
    ELSE IF ~verifySignatureFormat(sd.fields)
      THEN [exc |-> "", code |-> ERROR_SIGNATURE_FORMAT]
    ELSE The({
      IF signingCert.exc # "" THEN Raise(signingCert.exc, signingCert.code)
      ELSE The({
        IF result.exc # "" \/ result.code # VERIFY_SUCCESS THEN result
        ELSE [exc |-> "", code |-> swiSignatureValid(f, sd, signingCert, orc)]
        : result \in {signingCertValid(signingCert, rootCA)} })
      : signingCert \in {loadSigningCert(sd.fields)} })
    : sd \in {getSwiSignatureData(path, f)} })

\* verifySwi: IOError and X509CertException are turned into results, every
\* other exception reaches the caller
verifySwi(path, f, rootCA, orc) ==
  LET caught(r) ==
        IF r.exc = "IOError" THEN [exc |-> "", code |-> ERROR_VERIFICATION]
        ELSE IF r.exc = "X509CertException" THEN [exc |-> "", code |-> r.code]
        ELSE r
  IN caught(verifySwiTry(path, f, rootCA, orc))

---------------------------------------------------------------------------
(* switools/swisignature.py                                                *)

swiSignatureExistsNot(path, f) ==
  IF ~is_zipfile(f)
    THEN SwiSignException(SIGN_ERROR_NOT_A_SWI) @@ [val |-> FALSE]
  ELSE [exc |-> "", code |-> NoCode, val |-> FALSE]

swiSignatureExistsAny(path, f) ==
  IF ~is_zipfile(f)
    THEN SwiSignException(SIGN_ERROR_NOT_A_SWI) @@ [val |-> FALSE]
  ELSE [exc |-> "", code |-> NoCode, val |-> TRUE]

\* swiSignatureExists: val, or the exception raised
swiSignatureExists(path, f) ==
  LET listed(zf) ==
        IF zf.exc # "" THEN Raise(zf.exc, NoCode) @@ [val |-> FALSE]
        ELSE [exc |-> "", code |-> NoCode,
              val |-> getSigFileName(path) \in namelist(zf)]
  IN IF ~is_zipfile(f)
       THEN SwiSignException(SIGN_ERROR_NOT_A_SWI) @@ [val |-> FALSE]
     ELSE listed(ZipFile(f))

getNullSigInfoHeader(path, f) ==
  LET opened(sigFileInfo, sigFileObj) ==
        [exc |-> sigFileObj.exc, offset |-> sigFileInfo.header_offset,
         fileSize |-> sigFileInfo.file_size]
  IN IF ~f.exists THEN [exc |-> "IOError", offset |-> 0, fileSize |-> 0]
     ELSE The({
       IF zf.exc # "" THEN [exc |-> zf.exc, offset |-> 0, fileSize |-> 0]
       ELSE IF getSigFileName(path) \notin namelist(zf)
         THEN [exc |-> "KeyError", offset |-> 0, fileSize |-> 0]
       ELSE The({ opened(sigFileInfo, ZipOpen(f, sigFileInfo))
                  : sigFileInfo \in {getinfo(zf, getSigFileName(path))} })
       : zf \in {ZipFile(f)} })

\* getNullSigInfo: offset and fileSize of the signature member
getNullSigInfo(path, f) ==
  LET opened(sigFileInfo, sigFileObj) ==
        [exc |-> sigFileObj.exc, offset |-> sigFileObj.tell,
         fileSize |-> sigFileInfo.file_size]
  IN IF ~f.exists THEN [exc |-> "IOError", offset |-> 0, fileSize |-> 0]
     ELSE The({
       IF zf.exc # "" THEN [exc |-> zf.exc, offset |-> 0, fileSize |-> 0]
       ELSE IF getSigFileName(path) \notin namelist(zf)
         THEN [exc |-> "KeyError", offset |-> 0, fileSize |-> 0]
       ELSE The({ opened(sigFileInfo, ZipOpen(f, sigFileInfo))
                  : sigFileInfo \in {getinfo(zf, getSigFileName(path))} })
       : zf \in {ZipFile(f)} })

\* generateHash: the digest of the file, read block by block
generateHash(f) == sha256(ReadBlocks(f.data, 0, BLOCK_SIZE))

insertSignatureShort(f, name, data) ==
  LET ran(r) ==
        IF ~r.ok
          THEN SwiSignException(ERROR_SIGNATURE_INSERTION_FAILED) @@ [file |-> f]
        ELSE [exc |-> "", code |-> NoCode, file |-> r.file]
  IN ran(ZipInsert(f, name, SubSeq(data, 1, Len(data) - 1)))

\* insertSignature( swi, [ name ], workDir ), the staged file holding data
insertSignature(f, name, data) ==
  LET ran(r) ==
        IF ~r.ok
          THEN SwiSignException(ERROR_SIGNATURE_INSERTION_FAILED) @@ [file |-> f]
        ELSE [exc |-> "", code |-> NoCode, file |-> r.file]
  IN ran(ZipInsert(f, name, data))

TemporaryDirectoryKept(dir, exc) == IF exc = "" THEN [n \in DOMAIN dir |-> NoFile] ELSE dir

\* tempfile.TemporaryDirectory as a context manager holding the files dir:
\* what is left of the directory when the with block is left, by its end or
\* by the exception exc
TemporaryDirectory(dir, exc) == [n \in DOMAIN dir |-> NoFile]

NoOutfile == ""

\* the temporary directory of prepareSwi with the file of zero bytes in it
NullSigDir(size) == [n \in {"swi-signature"} |-> File(Repeat(0, size))]

\* prepareSwi( swi, outfile, forceSign, size ) on the files files: the files
\* afterwards and the digest returned (val), or the exception raised; tmpDir
\* is what is left of its temporary directory
prepareSwi(files, swi, outfile, forceSign, size) ==
  LET swiFile == IF outfile # NoOutfile THEN outfile ELSE swi
      copied == IF outfile # NoOutfile THEN [files EXCEPT ![outfile] = files[swi]]
                ELSE files
      fail(fl, e, c) == [files |-> fl, exc |-> e, code |-> c, val |-> <<>>,
                         tmpDir |-> [n \in DOMAIN NullSigDir(size) |-> NoFile]]
      inserted(ins, done) ==
        IF ins.exc # ""
          THEN [files |-> done, exc |-> ins.exc, code |-> ins.code, val |-> <<>>,
                tmpDir |-> TemporaryDirectory(NullSigDir(size), ins.exc)]
        ELSE [files |-> done, exc |-> "", code |-> NoCode,
              val |-> generateHash(done[swiFile]),
              tmpDir |-> TemporaryDirectory(NullSigDir(size), "")]
  IN IF outfile # NoOutfile /\ ~files[swi].exists THEN fail(files, "IOError", NoCode)
     ELSE The({
       IF ex.exc # "" THEN fail(copied, ex.exc, ex.code)
       ELSE IF ex.val /\ ~forceSign
         THEN fail(copied, "SwiSignException", ALREADY_SIGNED)
       ELSE The({
         IF ~del.ok THEN fail(copied, "CalledProcessError", NoCode)
         ELSE The({ inserted(ins, [copied EXCEPT ![swiFile] = ins.file])
                    : ins \in {insertSignature(del.file, getSigFileName(swiFile),
                                               Repeat(0, size))} })
         : del \in {IF ex.val
                      THEN ZipDelete(copied[swiFile], getSigFileName(swiFile))
                    ELSE [ok |-> TRUE, file |-> copied[swiFile]]} })
       : ex \in {swiSignatureExists(swiFile, copied[swiFile])} })

NoSource == ""

\* EVP.load_key( signingKeyFile ): the key, 0 with exc set if it cannot load
load_key(path) ==
  LET f == ReadStatic(path)
  IN IF ~f.exists THEN [exc |-> "BIOError", key |-> 0]
     ELSE IF Len(f.data) # 1 THEN [exc |-> "EVPError", key |-> 0]
     ELSE [exc |-> "", key |-> f.data[1]]

\* the signature text signSwi settles on: from the signature file, or made
\* with the signing key over the container as it is, or empty
signSwiSignature(f, sigTextFile, orc, signatureFile, signingKeyFile) ==
  LET none == [exc |-> "", code |-> NoCode, signature |-> <<>>, orc |-> orc]
      decoded(signature, d) ==
        IF d.exc = "binascii.Error"
          THEN [none EXCEPT !.exc = "SwiSignException", !.code = ERROR_INPUT_FILES]
        ELSE [none EXCEPT !.exc = d.exc, !.signature = signature]
      stripped(signature) == decoded(signature, b64decode(signature))
      signedWith(k, digest) ==
        IF ~f.exists THEN [none EXCEPT !.exc = "IOError"]
        ELSE IF k.exc # "" THEN [none EXCEPT !.exc = k.exc]
        ELSE [none EXCEPT !.signature = b64encode(SignatureValue(k.key, digest)),
                          !.orc = OracleAfter(orc, k.key, digest)]
  IN IF signatureFile # NoSource
       THEN IF ~sigTextFile.exists THEN [none EXCEPT !.exc = "IOError"]
            ELSE stripped(StrStrip(sigTextFile.data))
     ELSE IF signingKeyFile # NoSource
       THEN signedWith(load_key(signingKeyFile), sha256(f.data))
     ELSE none

crcpaddingSwapped(fileSize, swiSignature) ==
  matchingBytes(crc32(Utf8Encode(SwiSignature_repr(swiSignature).data)),
                crc32(Utf8Encode(Repeat(0, fileSize))))

\* the crc padding signSwi computes for the record
crcpadding(fileSize, swiSignature) ==
  LET nullcrc32 == crc32(Utf8Encode(Repeat(0, fileSize)))
      swiSigCrc32 == crc32(Utf8Encode(SwiSignature_repr(swiSignature).data))
  IN matchingBytes(nullcrc32, swiSigCrc32)

postSignIgnored(success) == [exc |-> "", code |-> SIGN_SUCCESS]

\* the end of signSwi: the outcome for the result of verifySwi
postSign(success) ==
  IF success.exc # "" THEN success
  ELSE IF success.code # SIGN_SUCCESS THEN SwiSignException(ERROR_FAIL_VERIFICATION)
  ELSE [exc |-> "", code |-> SIGN_SUCCESS]

NotRun == [exc |-> "not run", code |-> NoCode]

\* signSwi on the files files: the files and the signatures afterwards, the
\* outcome (exc, code), whether the record was written (wrote, with its
\* place and bytes) and what verifySwi gave (verified)
signSwi(files, sigTextFile, orc, swi, signingCertFile, rootCaFile, signatureFile, signingKeyFile) ==
  LET f == files[swi]
      stop(e, c, o) ==
        [files |-> files, orc |-> o, exc |-> e, code |-> c, wrote |-> FALSE,
         offset |-> 0, record |-> <<>>, verified |-> NotRun]
      verified(sg, info, bytes, written, success, outcome) ==
        [files |-> written, orc |-> sg.orc, exc |-> outcome.exc,
         code |-> outcome.code, wrote |-> TRUE, offset |-> info.offset,
         record |-> bytes.data, verified |-> success]
  IN The({
       IF ex.exc # "" THEN stop(ex.exc, ex.code, orc)
       ELSE IF ~ex.val THEN stop("SwiSignException", ERROR_NO_NULL_SIG, orc)
       ELSE IF sg.exc # "" THEN stop(sg.exc, sg.code, sg.orc)
       ELSE IF ~certFile.exists THEN stop("IOError", NoCode, sg.orc)
       ELSE IF info.exc # "" THEN stop(info.exc, NoCode, sg.orc)
       ELSE The({
         IF text.exc # "" THEN stop(text.exc, text.code, sg.orc)
         ELSE The({
           IF bytes.exc # "" THEN stop(bytes.exc, bytes.code, sg.orc)
           ELSE The({
             The({ verified(sg, info, bytes, written, success, postSign(success))
                   : success \in {verifySwi(swi, written[swi], rootCaFile, sg.orc)} })
             : written \in {[files EXCEPT
                               ![swi] = PatchFile(f, info.offset, bytes.data)]} })
           : bytes \in {getBytes([swiSignature EXCEPT
                          !.crcpadding = crcpadding(info.fileSize, swiSignature)])} })
         : swiSignature \in {NewSwiSignature(info.fileSize, SIGN_HASH,
                                b64encode(BytesStrip(certFile.data)), sg.signature)},
           text \in {SwiSignature_repr(
                       NewSwiSignature(info.fileSize, SIGN_HASH,
                         b64encode(BytesStrip(certFile.data)), sg.signature))} })
       : ex \in {swiSignatureExists(swi, f)},
         sg \in {signSwiSignature(f, sigTextFile, orc, signatureFile,
                                  signingKeyFile)},
         certFile \in {ReadStatic(signingCertFile)},
         info \in {getNullSigInfo(swi, f)} })

\* main of swisignature.py: the exit status of the prepare or sign command
\* for the outcome r of its handler; an exception that no except clause
\* names ends the interpreter with status 1
main(r) ==
  IF r.exc = "" THEN SIGN_SUCCESS
  ELSE IF r.exc \in {"IOError", "BIOError", "EVPError"} THEN ERROR_INPUT_FILES
  ELSE IF r.exc = "SwiSignException" THEN r.code
  ELSE 1

\* _prepare and _sign of signature.py: the names BIO and EVP of the first
\* except clause are not defined in that module, so matching any exception
\* raises NameError, which ends the interpreter with status 1
_sign(r) == IF r.exc = "" THEN SIGN_SUCCESS ELSE 1

---------------------------------------------------------------------------
(* The state machine: the operations of the tools on two container paths,  *)
(* the external signer, and a change of one byte of a signed container.    *)

MaxPad == 1          \* placeholders leave room for at most MaxPad fillers

Containers == {"EOS.swi", "out.swi"}
CertFiles == {"signing.crt"}
RootFiles == {"root.crt", "signing.crt", "bad.crt", "missing.crt", ROOT_CA_FILE_NAME}

\* a container as the tests build it: one member, version
FreshSwi == File(ZipBytes(<<Member(NAME_version, <<52>>)>>))

\* the length of the record signSwi writes for a certificate and a
\* signature of the model, without fillers
RecordLen(certText, sigText) ==
  (Len(KEY_HashAlgorithm) + 1 + Len(SIGN_HASH) + 1)
  + (Len(KEY_IssuerCert) + 1 + Len(certText) + 1)
  + (Len(KEY_Signature) + 1 + Len(sigText) + 1)
  + (Len(KEY_Version) + 1 + 1 + 1)
  + (Len(KEY_Padding) + 1 + 1)
  + (Len(KEY_CRCPadding) + 1 + 4)

FitSize == RecordLen(b64encode(SigningCert), b64encode(<<1>>))

\* an empty placeholder, one byte short of the record, the exact fit, and
\* room for fillers
Sizes ==
  LET around(fit) == {0, fit - 1, fit, fit + MaxPad}
  IN around(FitSize)

\* "a": not base64
BadSignatureText == <<97>>
\* base64 of a value that no key ever produced
FakeSignatureText == b64encode(<<77>>)

Idle == [op |-> "none"]
NoResult == [exc |-> "", code |-> NoCode]

Init ==
  /\ fs = [c \in Containers |-> IF c = "EOS.swi" THEN FreshSwi ELSE NoFile]
  /\ sigFile \in {File(BadSignatureText), File(FakeSignatureText)}
  /\ oracle = {}
  /\ stage = [c \in Containers |-> IF c = "EOS.swi" THEN "unsigned" ELSE "none"]
  /\ call = Idle
  /\ ret = NoResult

\* prepareSwi( swi, outfile, forceSign, size )
Prepare(swi, outfile, forceSign, size) ==
  LET target == IF outfile # NoOutfile THEN outfile ELSE swi
  IN /\ call = Idle
     /\ outfile # swi
     /\ fs[swi].exists
     /\ stage[swi] \notin {"tampered", "broken", "forged"}
     /\ \E r \in {prepareSwi(fs, swi, outfile, forceSign, size)} :
          /\ fs' = r.files
          /\ stage' = [stage EXCEPT ![target] =
                         IF r.exc = "" THEN "prepared"
                         ELSE IF outfile # NoOutfile THEN stage[swi] ELSE @]
          /\ ret' = [exc |-> r.exc, code |-> r.code, val |-> r.val,
                     tmpDir |-> r.tmpDir, status |-> main(r)]
     /\ call' = [op |-> "prepareSwi", swi |-> swi, outfile |-> outfile,
                 target |-> target, forceSign |-> forceSign, size |-> size,
                 before |-> stage[swi]]
     /\ UNCHANGED <<sigFile, oracle>>

\* the external signer: signs the digest prepareSwi has just returned with
\* the signing key and leaves the base64 signature in the signature file
ExternalSigner ==
  /\ call.op = "prepareSwi" /\ ret.exc = ""
  /\ oracle' = OracleAfter(oracle, K_SIGN, ret.val)
  /\ sigFile' = File(b64encode(SignatureValue(K_SIGN, ret.val)) \o <<NL>>)
  /\ call' = [op |-> "signer", swi |-> call.target]
  /\ ret' = NoResult
  /\ UNCHANGED <<fs, stage>>

\* signSwi( swi, signingCertFile, rootCaFile, signatureFile, signingKeyFile )
Sign(swi, signingCertFile, rootCaFile, signatureFile, signingKeyFile) ==
  /\ call = Idle
  /\ fs[swi].exists
  /\ stage[swi] \notin {"tampered", "broken", "forged"}
  /\ signatureFile = NoSource \/ signingKeyFile = NoSource
  /\ \E r \in {signSwi(fs, sigFile, oracle, swi, signingCertFile, rootCaFile,
                        signatureFile, signingKeyFile)} :
       /\ fs' = r.files
       /\ oracle' = r.orc
       /\ stage' = [stage EXCEPT ![swi] =
                      IF ~r.wrote THEN @
                      ELSE IF r.exc = "" THEN "signed" ELSE "written"]
       /\ ret' = [exc |-> r.exc, code |-> r.code, wrote |-> r.wrote,
                  offset |-> r.offset, record |-> r.record,
                  verified |-> r.verified]
  /\ \E info \in {getNullSigInfo(swi, fs[swi])},
        made \in {b64encode(SignatureValue(K_SIGN, sha256(fs[swi].data)))} :
       call' = [op |-> "signSwi", swi |-> swi, cert |-> signingCertFile,
                root |-> rootCaFile, signatureFile |-> signatureFile,
                signingKeyFile |-> signingKeyFile,
                before |-> stage[swi],
                digest |-> generateHash(fs[swi]),
                size |-> IF info.exc # "" THEN -1 ELSE info.fileSize,
                sigText |-> IF signatureFile # NoSource THEN StrStrip(sigFile.data)
                            ELSE IF signingKeyFile # NoSource THEN made
                            ELSE <<>>,
                sigMade |-> IF signatureFile # NoSource
                              THEN /\ [key |-> K_SIGN, msg |-> sha256(fs[swi].data)]
                                        \in oracle
                                   /\ StrStrip(sigFile.data) = made
                            ELSE signingKeyFile = "signing.key"]
  /\ UNCHANGED sigFile

\* verifySwi( swi, rootCA )
Verify(swi, rootCA) ==
  /\ call = Idle
  /\ call' = [op |-> "verifySwi", swi |-> swi, root |-> rootCA,
              before |-> stage[swi]]
  /\ ret' = verifySwi(swi, fs[swi], rootCA, oracle)
  /\ UNCHANGED <<fs, sigFile, oracle, stage>>

\* the bytes of the container f that verifySwi parses as zip structure: the
\* end record's magic and directory offset, the magic of every directory
\* entry, the directory entry of the signature member and its local header
ParsedPositions(path, f) ==
  LET data == f.data
      dirStart == data[Len(data)]
      n == (Len(data) - END_SIZE - dirStart) \div CENTRAL_SIZE
      entry(k) == dirStart + (k - 1) * CENTRAL_SIZE
      sig == CHOOSE k \in 1..n : data[entry(k) + 2] = getSigFileName(path)
      header == data[entry(sig) + CENTRAL_SIZE]
  IN {Len(data) - END_SIZE + 1, Len(data)}
     \cup {entry(k) + 1 : k \in 1..n}
     \cup {entry(sig) + i : i \in 1..CENTRAL_SIZE}
     \cup {header + i : i \in 1..LOCAL_SIZE}

\* one byte of a signed container is changed, outside the signature member;
\* the container is "broken" if the byte is zip structure that verifySwi
\* parses, "tampered" otherwise
Tamper(swi, pos, val) ==
  /\ call = Idle
  /\ stage[swi] = "signed"
  /\ pos \in 1..Len(fs[swi].data)
  /\ val # fs[swi].data[pos]
  /\ \E info \in {getNullSigInfo(swi, fs[swi])} :
       /\ ~(pos > info.offset /\ pos <= info.offset + info.fileSize)
       /\ call' = [op |-> "tamper", swi |-> swi, pos |-> pos, val |-> val,
                   offset |-> info.offset, size |-> info.fileSize]
  /\ fs' = [fs EXCEPT ![swi] = File([fs[swi].data EXCEPT ![pos] = val])]
  /\ stage' = [stage EXCEPT ![swi] =
                 IF pos \in ParsedPositions(swi, fs[swi]) THEN "broken"
                 ELSE "tampered"]
  /\ ret' = NoResult
  /\ UNCHANGED <<sigFile, oracle>>

\* the caller takes the outcome of the last operation
Return ==
  /\ call # Idle
  /\ call' = Idle
  /\ ret' = NoResult
  /\ UNCHANGED <<fs, sigFile, oracle, stage>>

\* The tools at work on a container, in place or on a copy (outfile); the
\* signing key is used on prepared containers.
Next ==
  \/ \E swi \in Containers, outfile \in {NoOutfile, "out.swi"},
        forceSign \in BOOLEAN, size \in Sizes :
       /\ (swi = "EOS.swi" /\ outfile = NoOutfile) => ~fs["out.swi"].exists
       /\ outfile # NoOutfile => stage[swi] = "unsigned"
       /\ Prepare(swi, outfile, forceSign, size)
  \/ ExternalSigner
  \/ \E swi \in Containers, r \in {"root.crt", "signing.crt"}, withKey \in BOOLEAN :
       /\ withKey => stage[swi] = "prepared"
       /\ Sign(swi, "signing.crt", r,
               IF withKey THEN NoSource ELSE "signature.sig",
               IF withKey THEN "signing.key" ELSE NoSource)
  \/ \E swi \in Containers, r \in RootFiles : Verify(swi, r)
  \/ Return

Spec == Init /\ [][Next]_vars

---------------------------------------------------------------------------
(* A signed container whose bytes are changed afterwards.                  *)

\* the container prepared with a placeholder of size bytes and signed with
\* the signing key against root.crt
SignedSwi(size) ==
  LET files == [c \in Containers |-> IF c = "EOS.swi" THEN FreshSwi ELSE NoFile]
      p == prepareSwi(files, "EOS.swi", NoOutfile, FALSE, size)
  IN signSwi(p.files, File(FakeSignatureText), {}, "EOS.swi", "signing.crt",
             "root.crt", NoSource, "signing.key")

InitTamper ==
  /\ \E fill \in {0, MaxPad} : \E r \in {SignedSwi(FitSize + fill)} :
       /\ fs = r.files
       /\ oracle = r.orc
  /\ sigFile = File(FakeSignatureText)
  /\ stage = [c \in Containers |-> IF c = "EOS.swi" THEN "signed" ELSE "none"]
  /\ call = Idle
  /\ ret = NoResult

NextTamper ==
  \/ \E pos \in DOMAIN fs["EOS.swi"].data, d \in {1, 255} :
       Tamper("EOS.swi", pos, (fs["EOS.swi"].data[pos] + d) % 256)
  \/ Verify("EOS.swi", "root.crt")
  \/ Return

SpecTamper == InitTamper /\ [][NextTamper]_vars

---------------------------------------------------------------------------
(* crc32collision.matchingBytes on its own                                 *)

MaxDataLen == 3      \* the data whose checksum is forced has at most MaxDataLen bytes

CrcDatas == UNION {[1..n -> {0, 65, 255}] : n \in 0..MaxDataLen}
CrcTargets ==
  {Zero32, Ones32, U32(0, 1), U32(32768, 0), U32(\hdead, \hbeef),
   crc32(<<49, 50, 51>>)}

\* matchingBytes( t, crc32( data ) )
MatchingBytes(data, t) ==
  /\ call = Idle
  /\ call' = [op |-> "matchingBytes", data |-> data, target |-> t]
  /\ ret' = [exc |-> "", code |-> NoCode, bytes |-> matchingBytes(t, crc32(data))]
  /\ UNCHANGED <<fs, sigFile, oracle, stage>>

NextCrc ==
  \/ \E data \in CrcDatas, t \in CrcTargets : MatchingBytes(data, t)
  \/ Return

SpecCrc == Init /\ [][NextCrc]_vars

---------------------------------------------------------------------------
(* SwiSignature.getBytes on its own, for the records signSwi builds: the   *)
(* hash is SIGN_HASH, the certificate is base64 text and the signature is  *)
(* empty or text that b64decode accepts.                                   *)

MaxFill == 3         \* the record leaves room for at most MaxFill fillers

\* by how many bytes a placeholder is too short at most
MaxOver == 3

CertTexts == {<<>>, b64encode(SigningCert), b64encode(SigningCert \o SigningCert)}
SignatureTexts ==
  {<<>>, FakeSignatureText, b64encode(<<K_SIGN, 1, 2, 3>>),
   <<65, 81, NL, PAD, PAD>>}
CrcPaddings ==
  {<<0, 0, 0, 0>>, <<255, NL, COLON, STAR>>}
  \cup {<<a, b, c, d>> : a \in {NL, COLON, 255}, b \in {NL, COLON, 255},
                         c \in {NL, COLON, 255}, d \in {NL, COLON, 255}}

\* SwiSignature( size ) with its fields set, then getBytes()
GetBytes(size, cert, signature, crcpad) ==
  /\ call = Idle
  /\ call' = [op |-> "getBytes", size |-> size, cert |-> cert,
              signature |-> signature, crcpadding |-> crcpad]
  /\ ret' = getBytes([NewSwiSignature(size, SIGN_HASH, cert, signature)
                        EXCEPT !.crcpadding = crcpad])
  /\ UNCHANGED <<fs, sigFile, oracle, stage>>

NextCodec ==
  \/ \E cert \in CertTexts, signature \in SignatureTexts, crcpad \in CrcPaddings,
        fill \in (-MaxOver)..MaxFill :
       GetBytes(RecordLen(cert, signature) + fill, cert, signature, crcpad)
  \/ Return

SpecCodec == Init /\ [][NextCodec]_vars

---------------------------------------------------------------------------
(* The bytes swiSignatureValid feeds to the verifier, on their own         *)

MaxFileLen == 11     \* the files fed have at most MaxFileLen bytes

\* a file of n bytes, all different and none zero
Numbered(n) == [i \in 1..n |-> i]

\* the loop of swiSignatureValid over a file of n bytes whose signature
\* member is the s bytes at offset o
Feed(n, o, s) ==
  /\ call = Idle
  /\ call' = [op |-> "swiSignatureValid", file |-> Numbered(n), offset |-> o,
              size |-> s]
  /\ ret' = [exc |-> "", code |-> NoCode, fed |-> FedBytes(Numbered(n), o, s)]
  /\ UNCHANGED <<fs, sigFile, oracle, stage>>

NextDigest ==
  \/ \E n \in 0..MaxFileLen : \E o \in 0..n : \E s \in 0..(n - o) : Feed(n, o, s)
  \/ Return

SpecDigest == Init /\ [][NextDigest]_vars

---------------------------------------------------------------------------
(* The sign command: switools/signaturelib.py and signSwiAll with its      *)
(* helpers.  An image with more than one optimization is signed in parts:  *)
(* swadapt makes a sub-image per optimization in the work directory, each  *)
(* is signed, its signature member is taken out as "<optim>.signature",    *)
(* and these files are added to the image before the image itself is       *)
(* signed.  The work directory is a function from the names of its files   *)
(* to files.  An external command exits with 0 unless the environment of   *)
(* the run lists it in failing; which is whether the signing service is    *)
(* installed.  The offsets of a large image go beyond one byte; they are   *)
(* kept in one field of the directory all the same.                        *)

NAME_swimSqshMap == 109            \* "swimSqshMap"
NAME_swadapt == 97                 \* "swadapt"
DEFAULT == <<68, 69, 70, 65, 85, 76, 84>>          \* "DEFAULT"
EQUALS == 61                       \* "="

ERROR_NO_SIGNATURE_FILE_PROVIDED == 6
ERROR_NO_SIGNING_SERVICE == 7
ERROR_SIGNING_SERVICE_FAILED == 8
ERROR_SIGNATURE_EXTRACTION_FAILED == 10
INTERNAL_ERROR == 11

\* 8192 in the source, reduced with the files: the record and MaxPad fillers
SWI_SIGNATURE_MAX_SIZE == FitSize + MaxPad

WorkNames == {"version", "swadapt", "sig", "A.swi", "B.swi", "A.signature", "B.signature"}
EmptyDir == [n \in WorkNames |-> NoFile]

\* the names made from the name of an optimization: the sub-image, the file
\* its signature is kept in, and the one-byte member name of that file
OptimFiles(optim) ==
  IF optim = <<65>>
    THEN [image |-> "A.swi", signature |-> "A.signature", member |-> 193]
  ELSE [image |-> "B.swi", signature |-> "B.signature", member |-> 194]

\* the sub-image swadapt makes for an optimization
SubImage(optim) == File(ZipBytes(<<Member(NAME_version, optim)>>))

\* runCmd: TRUE if the command exits with 0
runCmdAlways(tool, arg, failing) == TRUE

runCmd(tool, arg, failing) == <<tool, arg>> \notin failing

\* str.split(): the words of s between runs of whitespace
Words(s) ==
  LET starts == {i \in 1..Len(s) :
                   ~IsSpaceStr(s[i]) /\ (i = 1 \/ IsSpaceStr(At(s, i - 1)))}
      end(i) == CHOOSE j \in i..Len(s) :
                  /\ \A k \in i..j : ~IsSpaceStr(s[k])
                  /\ j = Len(s) \/ IsSpaceStr(At(s, j + 1))
  IN [k \in 1..Cardinality(starts) |-> SubSeq(s, Nth(starts, k), end(Nth(starts, k)))]

\* getOptimizations: none is TRUE for an image without the manifest, else
\* optims are the names before the first "=" of the manifest's words (the
\* manifests here are ASCII text, which decodes to itself); ValueError for a
\* word without "="
getOptimizations(f) ==
  LET result(e, none, optims) == [exc |-> e, none |-> none, optims |-> optims]
      first(w) == CHOOSE i \in 1..Len(w) : w[i] = EQUALS /\ \A j \in 1..(i - 1) : w[j] # EQUALS
      parsed(ws) ==
        IF \E k \in 1..Len(ws) : \A i \in 1..Len(ws[k]) : ws[k][i] # EQUALS
          THEN result("ValueError", FALSE, <<>>)
        ELSE result("", FALSE, [k \in 1..Len(ws) |-> SubSeq(ws[k], 1, first(ws[k]) - 1)])
      read(r) == IF r.exc # "" THEN result(r.exc, FALSE, <<>>)
                 ELSE parsed(Words(Utf8Decode(r.data)))
      opened(info, o) == IF o.exc # "" THEN result(o.exc, FALSE, <<>>)
                         ELSE read(ZipRead(f, info, o.tell))
  IN IF ~f.exists THEN result("IOError", FALSE, <<>>)
     ELSE IF ~is_zipfile(f) THEN result("BadZipFile", FALSE, <<>>)
     ELSE The({
       IF zf.exc # "" THEN result(zf.exc, FALSE, <<>>)
       ELSE IF NAME_swimSqshMap \notin namelist(zf) THEN result("", TRUE, <<>>)
       ELSE The({ opened(info, ZipOpen(f, info))
                  : info \in {getinfo(zf, NAME_swimSqshMap)} })
       : zf \in {ZipFile(f)} })

\* unzip -o -qq image name in the work directory: the member is written
\* there; the command fails if the image has no such member
Unzip(f, name, work, dest, failing) ==
  LET found(r) ==
        IF ~r.ok \/ ~(\E k \in 1..Len(r.ms) : r.ms[k].name = name) \/ ~runCmd("unzip", dest, failing)
          THEN [ok |-> FALSE, work |-> work]
        ELSE [ok |-> TRUE,
              work |-> [work EXCEPT ![dest] =
                          File(r.ms[CHOOSE k \in 1..Len(r.ms) : r.ms[k].name = name].data)]]
  IN found(ZipMembers(f))

\* checkIsSwiFile: val is "False", "None" or what runCmd gave for the
\* extraction of version; CalledProcessError if unzip -Z1 cannot list the file
checkIsSwiFile(f, work, failing) ==
  LET result(e, v, w) == [exc |-> e, val |-> v, work |-> w]
      extracted(r) == result("", IF r.ok THEN "True" ELSE "False", r.work)
      listed(r) ==
        IF ~r.ok THEN result("CalledProcessError", "False", work)
        ELSE IF ~(\E k \in 1..Len(r.ms) : r.ms[k].name = NAME_version)
          THEN result("", "None", work)
        ELSE extracted(Unzip(f, NAME_version, work, "version", failing))
  IN IF ~f.exists THEN result("", "False", work)
     ELSE listed(ZipMembers(f))

\* extractSwadapt
extractSwadapt(f, work, failing) == Unzip(f, NAME_swadapt, work, "swadapt", failing)

\* adaptSwi: swadapt writes the sub-image of an optimization
adaptSwi(work, optimImage, optim, failing) ==
  IF ~work["swadapt"].exists \/ ~runCmd("swadapt", optimImage, failing)
    THEN [ok |-> FALSE, work |-> work]
  ELSE [ok |-> TRUE, work |-> [work EXCEPT ![optimImage] = SubImage(optim)]]

\* extractSignature( swi, destFile ), both in the work directory
extractSignature(work, swi, destFile, failing) ==
  LET done(r) ==
        IF ~r.ok
          THEN SwiSignException(ERROR_SIGNATURE_EXTRACTION_FAILED) @@ [work |-> work]
        ELSE [exc |-> "", code |-> NoCode, work |-> r.work]
  IN done(Unzip(work[swi], SWI_SIG_FILE_NAME, work, destFile, failing))

\* swi-signing-service: signs the digest it is given with the signing key
\* and writes the base64 text of the signature
SigningService(orc, digest) ==
  [orc |-> OracleAfter(orc, K_SIGN, digest),
   sig |-> File(b64encode(SignatureValue(K_SIGN, digest)))]

\* getSignatureFile( swi, signatureFile ): the files, the signatures made and
\* the signature file (sig) afterwards
getSignatureFile(files, orc, swi, env) ==
  LET fail(fl, c) == [files |-> fl, orc |-> orc, sig |-> NoFile,
                      exc |-> "SwiSignException", code |-> c]
      served(p, s) == [files |-> p.files, orc |-> s.orc, sig |-> s.sig,
                       exc |-> "", code |-> NoCode]
      prepared(p) ==
        IF p.exc # ""
          THEN [files |-> p.files, orc |-> orc, sig |-> NoFile,
                exc |-> p.exc, code |-> p.code]
        ELSE IF ~runCmd("swi-signing-service", swi, env.failing)
          THEN fail(p.files, ERROR_SIGNING_SERVICE_FAILED)
        ELSE served(p, SigningService(orc, p.val))
  IN IF ~env.which THEN fail(files, ERROR_NO_SIGNING_SERVICE)
     ELSE prepared(prepareSwi(files, swi, NoOutfile, TRUE, SWI_SIGNATURE_MAX_SIZE))

\* insertSignature( swi, sigFileNames, workDir ) for the signature files of
\* the optimizations, from the i-th on; zip with no file to add exits with an
\* error
insertSignatureFilesNone(f, work, sigFileNames, i) == [exc |-> "", code |-> NoCode, file |-> f]

RECURSIVE insertSignatureFiles(_, _, _, _)
insertSignatureFiles(f, work, sigFileNames, i) ==
  IF i > Len(sigFileNames) THEN [exc |-> "", code |-> NoCode, file |-> f]
  ELSE The({ IF r.exc # "" THEN [r EXCEPT !.file = f]
             ELSE insertSignatureFiles(r.file, work, sigFileNames, i + 1)
             : r \in {insertSignature(f, OptimFiles(sigFileNames[i]).member,
                                      work[OptimFiles(sigFileNames[i]).signature].data)} })

\* the outcome of signSwiAll: the files, the signatures made and the work
\* directory afterwards, and the path taken
Outcome(files, work, orc, exc, code, path) ==
  [files |-> files, work |-> work, orc |-> orc, exc |-> exc, code |-> code, path |-> path]

\* signSwiAll, the case of a single image
signSwiAllSingle(work, files, sigTextFile, orc, swi, signingCertFile, rootCaFile, signatureFile, signingKeyFile, env) ==
  LET ready(fl, w, o, sf, e, c) ==
        [files |-> fl, work |-> w, orc |-> o, signatureFile |-> sf, exc |-> e, code |-> c]
      served(g) == ready(g.files, [work EXCEPT !["sig"] = g.sig], g.orc, "sig", g.exc, g.code)
      prepared(p) == ready(p.files, work, orc, signatureFile, p.exc, p.code)
      text(pre) == IF pre.signatureFile = "sig" THEN pre.work["sig"] ELSE sigTextFile
  IN The({
       IF pre.exc # "" THEN Outcome(pre.files, pre.work, pre.orc, pre.exc, pre.code, "single")
       ELSE IF pre.signatureFile = NoSource /\ signingKeyFile = NoSource
         THEN Outcome(pre.files, pre.work, pre.orc, "SwiSignException",
                      ERROR_NO_SIGNATURE_FILE_PROVIDED, "single")
       ELSE The({ Outcome(s.files, pre.work, s.orc, s.exc, s.code, "single")
                  : s \in {signSwi(pre.files, text(pre), pre.orc, swi, signingCertFile,
                                   rootCaFile, pre.signatureFile, signingKeyFile)} })
       : pre \in {IF signatureFile = NoSource /\ signingKeyFile = NoSource
                    THEN served(getSignatureFile(files, orc, swi, env))
                  ELSE IF signatureFile = NoSource
                    THEN prepared(prepareSwi(files, swi, NoOutfile, TRUE,
                                             SWI_SIGNATURE_MAX_SIZE))
                  ELSE ready(files, work, orc, signatureFile, "", NoCode)} })

\* signSwiAll, one round of the loop over the optimizations: st holds the
\* work directory, the signatures made, the signature file in use and the
\* names of the signature files so far
signSwiAllOptim(st, sigTextFile, optim, signingCertFile, rootCaFile, signingKeyFile, env) ==
  LET optimImage == OptimFiles(optim).image
      raise(w, o, e, c) == [st EXCEPT !.work = w, !.orc = o, !.exc = e, !.code = c]
      served(w, g) ==
        [st EXCEPT !.work = [g.files EXCEPT !["sig"] = IF g.exc = "" THEN g.sig ELSE w["sig"]],
                   !.orc = g.orc, !.signatureFile = "sig", !.exc = g.exc, !.code = g.code]
      prepared(p) == [st EXCEPT !.work = p.files, !.exc = p.exc, !.code = p.code]
      text(pre) == IF pre.signatureFile = "sig" THEN pre.work["sig"] ELSE sigTextFile
      extracted(pre, s, x) ==
        IF x.exc # "" THEN raise(x.work, s.orc, x.exc, x.code)
        ELSE [pre EXCEPT !.work = [x.work EXCEPT ![optimImage] = NoFile],
                         !.orc = s.orc,
                         !.optimSigFiles = Append(st.optimSigFiles, optim)]
      signed(pre, s) ==
        IF s.exc # "" THEN raise(s.files, s.orc, s.exc, s.code)
        ELSE extracted(pre, s, extractSignature(s.files, optimImage,
                                                OptimFiles(optim).signature, env.failing))
  IN The({
       IF ~a.ok THEN raise(a.work, st.orc, "SwiSignException", INTERNAL_ERROR)
       ELSE The({
         IF pre.exc # "" THEN pre
         ELSE signed(pre, signSwi(pre.work, text(pre), pre.orc, optimImage,
                                  signingCertFile, rootCaFile, pre.signatureFile,
                                  signingKeyFile))
         : pre \in {IF signingKeyFile = NoSource
                      THEN served(a.work, getSignatureFile(a.work, st.orc, optimImage, env))
                    ELSE prepared(prepareSwi(a.work, optimImage, NoOutfile, TRUE,
                                             SWI_SIGNATURE_MAX_SIZE))} })
       : a \in {adaptSwi(st.work, optimImage, optim, env.failing)} })

\* signSwiAll, the loop over the optimizations from the i-th on
RECURSIVE signSwiAllOptims(_, _, _, _, _, _, _, _)
signSwiAllOptims(st, sigTextFile, optims, i, signingCertFile, rootCaFile, signingKeyFile, env) ==
  IF i > Len(optims) \/ st.exc # "" THEN st
  ELSE signSwiAllOptims(
         signSwiAllOptim(st, sigTextFile, optims[i], signingCertFile, rootCaFile,
                         signingKeyFile, env),
         sigTextFile, optims, i + 1, signingCertFile, rootCaFile, signingKeyFile, env)

\* signSwiAll, the image itself after its optimizations: their signature
\* files are added, a placeholder is put in, the signing service is asked if
\* there is no key, and the image is signed
signSwiAllParent(st, files, sigTextFile, swi, signingCertFile, rootCaFile, signingKeyFile, env) ==
  LET raise(fl, w, o, e, c) == Outcome(fl, w, o, e, c, "recursive")
      text(pre) == IF pre.signatureFile = "sig" THEN pre.work["sig"] ELSE sigTextFile
      served(p, s) == [files |-> p.files, work |-> [st.work EXCEPT !["sig"] = s.sig],
                       orc |-> s.orc, signatureFile |-> st.signatureFile,
                       exc |-> "", code |-> NoCode]
      asked(p) ==
        IF signingKeyFile # NoSource
          THEN [files |-> p.files, work |-> st.work, orc |-> st.orc,
                signatureFile |-> st.signatureFile, exc |-> "", code |-> NoCode]
        ELSE IF ~env.which
          THEN [files |-> p.files, work |-> st.work, orc |-> st.orc,
                signatureFile |-> st.signatureFile, exc |-> "IOError", code |-> NoCode]
        ELSE IF ~runCmd("swi-signing-service", swi, env.failing)
          THEN [files |-> p.files, work |-> st.work, orc |-> st.orc,
                signatureFile |-> st.signatureFile,
                exc |-> "SwiSignException", code |-> ERROR_SIGNING_SERVICE_FAILED]
        ELSE served(p, SigningService(st.orc, p.val))
      signed(pre, s) == Outcome(s.files, pre.work, s.orc, s.exc, s.code, "recursive")
  IN The({
       IF ins.exc # "" THEN raise(files, st.work, st.orc, ins.exc, ins.code)
       ELSE The({
         IF p.exc # "" THEN raise(p.files, st.work, st.orc, p.exc, p.code)
         ELSE The({
           IF pre.exc # "" THEN raise(pre.files, pre.work, pre.orc, pre.exc, pre.code)
           ELSE signed(pre, signSwi(pre.files, text(pre), pre.orc, swi, signingCertFile,
                                    rootCaFile, pre.signatureFile, signingKeyFile))
           : pre \in {asked(p)} })
         : p \in {prepareSwi([files EXCEPT ![swi] = ins.file], swi, NoOutfile, TRUE,
                             SWI_SIGNATURE_MAX_SIZE)} })
       : ins \in {IF st.optimSigFiles = <<>> \/ ~runCmd("zip", swi, env.failing)
                    THEN SwiSignException(ERROR_SIGNATURE_INSERTION_FAILED)
                         @@ [file |-> files[swi]]
                  ELSE insertSignatureFiles(files[swi], st.work, st.optimSigFiles, 1)} })

\* signSwiAll( workDir, swi, signingCertFile, rootCaFile, signatureFile,
\* signingKeyFile ) with an empty work directory
signSwiAll(files, sigTextFile, orc, swi, signingCertFile, rootCaFile, signatureFile, signingKeyFile, env) ==
  LET start(w) == [work |-> w, orc |-> orc, signatureFile |-> signatureFile,
                   optimSigFiles |-> <<>>, exc |-> "", code |-> NoCode]
  IN The({
       IF check.exc # "" THEN Outcome(files, check.work, orc, check.exc, NoCode, "none")
       ELSE IF check.val # "True"
         THEN Outcome(files, check.work, orc, "SwiSignException", SIGN_ERROR_NOT_A_SWI, "none")
       ELSE The({
         IF o.exc # "" THEN Outcome(files, check.work, orc, o.exc, NoCode, "none")
         ELSE IF o.none \/ Len(o.optims) = 1
                 \/ \E k \in 1..Len(o.optims) : o.optims[k] = DEFAULT
           THEN signSwiAllSingle(check.work, files, sigTextFile, orc, swi, signingCertFile,
                                 rootCaFile, signatureFile, signingKeyFile, env)
         ELSE The({
           IF ~sw.ok
             THEN Outcome(files, sw.work, orc, "SwiSignException", INTERNAL_ERROR,
                          "recursive")
           ELSE The({
             IF st.exc # ""
               THEN Outcome(files, st.work, st.orc, st.exc, st.code, "recursive")
             ELSE signSwiAllParent(st, files, sigTextFile, swi, signingCertFile,
                                   rootCaFile, signingKeyFile, env)
             : st \in {signSwiAllOptims(start(sw.work), sigTextFile, o.optims, 1,
                                        signingCertFile, rootCaFile, signingKeyFile,
                                        env)} })
           : sw \in {extractSwadapt(files[swi], check.work, env.failing)} })
         : o \in {getOptimizations(files[swi])} })
       : check \in {checkIsSwiFile(files[swi], EmptyDir, env.failing)} })

\* signSwiHandler: signSwiAll in a temporary directory that is removed when
\* the with block is left, by return or by exception; left is what signSwiAll
\* left in it
signSwiHandler(files, sigTextFile, orc, swi, signingCertFile, rootCaFile, signatureFile, signingKeyFile, env) ==
  The({ [files |-> r.files, orc |-> r.orc, exc |-> r.exc, code |-> r.code,
         path |-> r.path, left |-> r.work,
         workDir |-> TemporaryDirectory(r.work, r.exc)]
        : r \in {signSwiAll(files, sigTextFile, orc, swi, signingCertFile,
                            rootCaFile, signatureFile, signingKeyFile, env)} })

---------------------------------------------------------------------------
(* The sign command at work on one image.  The image is one of: a plain    *)
(* image, images with a manifest of optimizations (two of them, one, one   *)
(* and DEFAULT, none, a word without "="), an image whose manifest names   *)
(* two optimizations but which lacks swadapt, a zip archive without        *)
(* version, and a file that is no zip archive.                             *)

MANIFEST_AB == <<65, 61, 49, 10, 66, 61, 50, 10>>                   \* "A=1\nB=2\n"
MANIFEST_A == <<65, 61, 49, 10>>                                    \* "A=1\n"
MANIFEST_DEFAULT == DEFAULT \o <<61, 49, 10, 65, 61, 49, 10>>       \* "DEFAULT=1\nA=1\n"
MANIFEST_WORD == <<65, 10>>                                         \* "A\n"

\* an image with a manifest and the swadapt utility
ManifestSwi(manifest) ==
  File(ZipBytes(<<Member(NAME_version, <<52>>), Member(NAME_swimSqshMap, manifest),
                  Member(NAME_swadapt, <<1>>)>>))

Images ==
  {FreshSwi, ManifestSwi(MANIFEST_AB), ManifestSwi(MANIFEST_A),
   ManifestSwi(MANIFEST_DEFAULT), ManifestSwi(<<>>), ManifestSwi(MANIFEST_WORD),
   File(ZipBytes(<<Member(NAME_version, <<52>>), Member(NAME_swimSqshMap, MANIFEST_AB)>>)),
   File(ZipBytes(<<Member(NAME_swadapt, <<1>>)>>)),
   File(<<103, 97, 114>>)}

\* "é": text that is not ASCII
NonAsciiSignatureText == <<233>>

\* the commands that fail in some run, one at most in a run
FailingCmds ==
  {<<"unzip", "version">>, <<"unzip", "swadapt">>, <<"swadapt", "B.swi">>,
   <<"swi-signing-service", "B.swi">>, <<"swi-signing-service", "EOS.swi">>,
   <<"unzip", "B.signature">>, <<"zip", "EOS.swi">>}

Envs ==
  {[which |-> w, failing |-> {}] : w \in BOOLEAN}
  \cup {[which |-> TRUE, failing |-> {c}] : c \in FailingCmds}

\* what the signature member of the container f tells: no member, the
\* placeholder's zero bytes, or a record
StageOf(swi, f) ==
  LET named(ms) == SelectSeq(ms, LAMBDA m : m.name = getSigFileName(swi))
      told(ms) == IF ms = <<>> THEN "unsigned"
                  ELSE IF \A i \in 1..Len(ms[1].data) : ms[1].data[i] = 0 THEN "prepared"
                  ELSE "written"
  IN told(named(ZipMembers(f).ms))

RecordLine(key, val) == key \o <<COLON>> \o val \o <<NL>>

\* signature members written by hand, as the tests of verifySwi write them:
\* text without a colon, text with other keys, and the three lines with a
\* value each that is empty, good, or bad in its own way (SHA-512; text that is
\* not base64, the base64 of bytes that are no certificate; a value with a
\* colon in it)
HandMadeRecords ==
  {<<98, 97, 100, 32, 115, 105, 103>>, <<97, 58, 98, 10, 99, 58, 100>>}
  \cup {RecordLine(KEY_HashAlgorithm, h) \o RecordLine(KEY_IssuerCert, c)
          \o RecordLine(KEY_Signature, g)
        : h \in {<<>>, SIGN_HASH, <<83, 72, 65, 45, 53, 49, 50>>},
          c \in {<<>>, b64encode(SigningCert), <<97>>, b64encode(<<98, 97, 100>>)},
          g \in {<<>>, FakeSignatureText, FakeSignatureText \o <<COLON, 120>>}}

\* _addSigToSwi of the tests: a signature member with the given bytes is
\* added to the plain image
AddSig(swi, signature) ==
  /\ call = Idle
  /\ stage[swi] = "unsigned" /\ fs[swi] = FreshSwi /\ sigFile = File(FakeSignatureText)
  /\ \E r \in {ZipInsert(fs[swi], getSigFileName(swi), signature)} :
       /\ r.ok
       /\ fs' = [fs EXCEPT ![swi] = r.file]
  /\ stage' = [stage EXCEPT ![swi] = "forged"]
  /\ call' = [op |-> "addSig", swi |-> swi, signature |-> signature]
  /\ ret' = NoResult
  /\ UNCHANGED <<sigFile, oracle>>

InitAll ==
  /\ \E image \in Images :
       /\ fs = [c \in Containers |-> IF c = "EOS.swi" THEN image ELSE NoFile]
       /\ sigFile \in {File(FakeSignatureText)} \cup
                      IF image = FreshSwi
                        THEN {File(BadSignatureText), File(NonAsciiSignatureText)}
                      ELSE {}
  /\ oracle = {}
  /\ stage = [c \in Containers |-> IF c = "EOS.swi" THEN "unsigned" ELSE "none"]
  /\ call = Idle
  /\ ret = NoResult

\* the sign command: signSwiHandler under main
SignCmd(swi, signingCertFile, rootCaFile, signatureFile, signingKeyFile, env) ==
  /\ call = Idle
  /\ signatureFile = NoSource \/ signingKeyFile = NoSource
  /\ \E r \in {signSwiHandler(fs, sigFile, oracle, swi, signingCertFile, rootCaFile,
                               signatureFile, signingKeyFile, env)} :
       /\ fs' = r.files
       /\ oracle' = r.orc
       /\ stage' = [stage EXCEPT ![swi] =
                      IF r.exc = "" THEN "signed"
                      ELSE IF r.files[swi] = fs[swi] THEN @
                      ELSE StageOf(swi, r.files[swi])]
       /\ ret' = [exc |-> r.exc, code |-> r.code, path |-> r.path, left |-> r.left,
                  workDir |-> r.workDir, status |-> main(r), typerStatus |-> _sign(r)]
  /\ \E o \in {IF is_zipfile(fs[swi]) THEN getOptimizations(fs[swi])
                ELSE [exc |-> "BadZipFile", none |-> FALSE, optims |-> <<>>]} :
       call' = [op |-> "sign", swi |-> swi, cert |-> signingCertFile,
                root |-> rootCaFile, signatureFile |-> signatureFile,
                signingKeyFile |-> signingKeyFile, env |-> env,
                before |-> stage[swi], image |-> fs[swi], manifest |-> o]
  /\ UNCHANGED sigFile

\* The prepare and sign commands, signSwi and verifySwi on the image, and
\* verifySwi on the plain image with a signature member written by hand.  The
\* commands run before anything is signed; a command of the environment
\* fails only in a sign command on the image as it came.
NextAll ==
  \/ \E forceSign \in BOOLEAN, size \in {FitSize - 1, SWI_SIGNATURE_MAX_SIZE} :
       /\ oracle = {}
       /\ Prepare("EOS.swi", NoOutfile, forceSign, size)
  \/ \E signingCertFile \in {"signing.crt", "missing.crt"},
        signatureFile \in {NoSource, "signature.sig"}, signingKeyFile \in {NoSource, "signing.key"} :
       /\ signingCertFile = "missing.crt" => stage["EOS.swi"] = "unsigned"
       /\ Sign("EOS.swi", signingCertFile, "root.crt", signatureFile, signingKeyFile)
  \/ \E signatureFile \in {NoSource, "signature.sig"}, signingKeyFile \in {NoSource, "signing.key"},
        env \in Envs :
       /\ oracle = {}
       /\ stage["EOS.swi"] = "unsigned" \/ (stage["EOS.swi"] = "prepared" /\ env.failing = {})
       /\ SignCmd("EOS.swi", "signing.crt", "root.crt", signatureFile, signingKeyFile, env)
  \/ \E signature \in HandMadeRecords : AddSig("EOS.swi", signature)
  \/ \E rootCA \in {"root.crt", "bad.crt"} :
       /\ rootCA = "bad.crt" => stage["EOS.swi"] = "forged"
       /\ Verify("EOS.swi", rootCA)
  \/ Return

SpecAll == InitAll /\ [][NextAll]_vars

(***************************************************************************)
(* prepareSwi with an outfile: the image is copied to out.swi or out.swix   *)
(* and the copy is prepared, signed and verified, whatever the image holds  *)
(* by then (nothing, a placeholder, a signature).                           *)
(***************************************************************************)
OutContainers == {"EOS.swi", "out.swi", "out.swix"}

InitOut ==
  /\ fs = [c \in OutContainers |-> IF c = "EOS.swi" THEN FreshSwi ELSE NoFile]
  /\ sigFile = File(FakeSignatureText)
  /\ oracle = {}
  /\ stage = [c \in OutContainers |-> IF c = "EOS.swi" THEN "unsigned" ELSE "none"]
  /\ call = Idle
  /\ ret = NoResult

NextOut ==
  \/ \E forceSign \in BOOLEAN, size \in {FitSize - 1, FitSize + MaxPad} :
       /\ \A c \in OutContainers \ {"EOS.swi"} : ~fs[c].exists
       /\ Prepare("EOS.swi", NoOutfile, forceSign, size)
  \/ \E outfile \in OutContainers \ {"EOS.swi"}, forceSign \in BOOLEAN,
        size \in {FitSize - 1, FitSize + MaxPad} :
       Prepare("EOS.swi", outfile, forceSign, size)
  \/ \E swi \in OutContainers :
       /\ stage[swi] = "prepared"
       /\ Sign(swi, "signing.crt", "root.crt", NoSource, "signing.key")
  \/ \E swi \in OutContainers \ {"EOS.swi"} : Verify(swi, "root.crt")
  \/ Return

SpecOut == InitOut /\ [][NextOut]_vars

(***************************************************************************)
(* The record of a signed image written anew: another version value,       *)
(* another filler character, another key on the filler line, with the four *)
(* suffix bytes kept as they were or chosen again for the checksum of the  *)
(* member.  Nothing outside the member changes.                            *)
(***************************************************************************)
\* the text of a record like the one __repr__ makes, with the given version
\* character, filler character and first character of the filler key
RecordVariant(size, cert, signature, version, filler, key) ==
  KEY_HashAlgorithm \o <<COLON>> \o SIGN_HASH \o <<NL>>
  \o KEY_IssuerCert \o <<COLON>> \o cert \o <<NL>>
  \o KEY_Signature \o <<COLON>> \o signature \o <<NL>>
  \o KEY_Version \o <<COLON, version, NL>>
  \o <<key>> \o Tail(KEY_Padding) \o <<COLON>>
  \o Repeat(filler, size - RecordLen(cert, signature))
  \o <<NL>> \o KEY_CRCPadding \o <<COLON>>

Rewrite(swi, version, filler, key, fix) ==
  /\ call = Idle
  /\ stage[swi] = "signed"
  /\ \E info \in {getNullSigInfo(swi, fs[swi])} :
       \E old \in {SubSeq(fs[swi].data, info.offset + 1, info.offset + info.fileSize)} :
         \E text \in {RecordVariant(info.fileSize, b64encode(updateFields(old).cert),
                                     b64encode(updateFields(old).signature),
                                     version, filler, key)} :
           \E suffix \in {IF fix
                            THEN matchingBytes(crc32(Repeat(0, info.fileSize)), crc32(text))
                          ELSE SubSeq(old, info.fileSize - 3, info.fileSize)} :
             /\ fs' = [fs EXCEPT ![swi] = PatchFile(fs[swi], info.offset, text \o suffix)]
             /\ call' = [op |-> "rewrite", swi |-> swi, fix |-> fix,
                         offset |-> info.offset, size |-> info.fileSize]
  /\ stage' = [stage EXCEPT ![swi] = "rewritten"]
  /\ ret' = NoResult
  /\ UNCHANGED <<sigFile, oracle>>

InitRecord ==
  /\ \E fill \in {0, MaxPad, MaxPad + 2} : \E r \in {SignedSwi(FitSize + fill)} :
       /\ fs = r.files
       /\ oracle = r.orc
  /\ sigFile = File(FakeSignatureText)
  /\ stage = [c \in Containers |-> IF c = "EOS.swi" THEN "signed" ELSE "none"]
  /\ call = Idle
  /\ ret = NoResult

NextRecord ==
  \/ \E version \in {49, 50}, filler \in {STAR, 43}, key \in {80, 81}, fix \in BOOLEAN :
       Rewrite("EOS.swi", version, filler, key, fix)
  \/ \E rootCA \in {"root.crt", "signing.crt", "bad.crt"} : Verify("EOS.swi", rootCA)
  \/ Return

SpecRecord == InitRecord /\ [][NextRecord]_vars

---------------------------------------------------------------------------
(* Properties                                                              *)

Returned(c) == [exc |-> "", code |-> c]

\* the bytes of the signature member of the container at path, as located by
\* getNullSigInfo
SigMemberBytes(path) ==
  LET at(info) == SubSeq(fs[path].data, info.offset + 1, info.offset + info.fileSize)
  IN at(getNullSigInfo(path, fs[path]))

C2_ChecksumInversion ==
  call.op = "matchingBytes" =>
    /\ Len(ret.bytes) = 4
    /\ \A i \in 1..4 : ret.bytes[i] \in Byte
    /\ crc32(call.data \o ret.bytes) = call.target
    /\ U32(ret.bytes[3] + 256 * ret.bytes[4], ret.bytes[1] + 256 * ret.bytes[2])
         = crcfix(call.target, crc32(call.data))

C2_Witness ==
  /\ call.op = "matchingBytes" /\ Len(call.data) = MaxDataLen
  /\ call.target = U32(\hdead, \hbeef)
  /\ crc32(call.data \o ret.bytes) = call.target

\* C3: once signSwi has written the record over the placeholder of S bytes,
\* the S bytes of the signature member have the CRC-32 of S zero bytes, which
\* is the CRC-32 the zip directory holds for the member.
C3_SignedMemberCrc ==
  (call.op = "signSwi" /\ ret.wrote) =>
    LET member == SigMemberBytes(call.swi)
        zf == ZipFile(fs[call.swi])
    IN /\ Len(member) = call.size
       /\ member = ret.record
       /\ crc32(member) = crc32(Repeat(0, call.size))
       /\ crc32(member) = getinfo(zf, getSigFileName(call.swi)).crc

C3_Witness ==
  /\ call.op = "signSwi" /\ ret.wrote /\ call.size = FitSize + MaxPad
  /\ SigMemberBytes(call.swi) # Repeat(0, call.size)
  /\ crc32(SigMemberBytes(call.swi)) = crc32(Repeat(0, call.size))

\* the text of a record without its 4 suffix bytes, line by line
RecordText(size, cert, signature) ==
  KEY_HashAlgorithm \o <<COLON>> \o SIGN_HASH \o <<NL>>
  \o KEY_IssuerCert \o <<COLON>> \o cert \o <<NL>>
  \o KEY_Signature \o <<COLON>> \o signature \o <<NL>>
  \o KEY_Version \o <<COLON, 49, NL>>
  \o KEY_Padding \o <<COLON>> \o Repeat(STAR, size - RecordLen(cert, signature))
  \o <<NL>> \o KEY_CRCPadding \o <<COLON>>

\* C4: for a record whose lines and 4 suffix bytes fit in S, getBytes()
\* returns exactly S bytes: S - 4 bytes of text, which are the lines with the
\* filler run that makes up the difference (empty when the record fits
\* exactly), then the 4 suffix bytes.
C4_FixedRecordSize ==
  (call.op = "getBytes" /\ call.size >= RecordLen(call.cert, call.signature)) =>
    /\ ret.exc = ""
    /\ Len(ret.data) = call.size
    /\ SubSeq(ret.data, 1, call.size - 4)
         = RecordText(call.size, call.cert, call.signature)
    /\ SubSeq(ret.data, call.size - 3, call.size) = call.crcpadding

\* the record fits exactly: no fillers
C4_Witness ==
  /\ call.op = "getBytes" /\ call.size = RecordLen(call.cert, call.signature)
  /\ call.signature # <<>> /\ call.cert # <<>>
  /\ ret.exc = "" /\ Len(ret.data) = call.size

\* the file with its signature member, s bytes at offset o, zeroed
ZeroFilled(file, o, s) ==
  [i \in 1..Len(file) |-> IF i > o /\ i <= o + s THEN 0 ELSE file[i]]

\* C5: the bytes swiSignatureValid feeds to the verifier for a file F whose
\* signature member is s bytes at offset o are F[0..o), s zero bytes and
\* F[o+s..len(F)), wherever o lies with respect to the blocks; their digest is
\* the digest generateHash gives for F with the member zeroed.
C5_ZeroFilledDigest ==
  call.op = "swiSignatureValid" =>
    /\ ret.fed = SubSeq(call.file, 1, call.offset) \o Repeat(0, call.size)
                 \o SubSeq(call.file, call.offset + call.size + 1, Len(call.file))
    /\ sha256(ret.fed)
         = generateHash(File(ZeroFilled(call.file, call.offset, call.size)))

\* the member starts past the first block, not at a block boundary, and more
\* than a block follows it
C5_Witness ==
  /\ call.op = "swiSignatureValid"
  /\ call.offset > BLOCK_SIZE /\ call.offset % BLOCK_SIZE # 0
  /\ call.size > 0
  /\ Len(call.file) - call.offset - call.size > BLOCK_SIZE
  /\ ret.fed = ZeroFilled(call.file, call.offset, call.size)

\* C6 as stated: after a successful signSwi, verifySwi with the same root on
\* the container with one byte changed outside the signature member returns
\* ERROR_VERIFICATION.
C6_TamperGivesVerificationError ==
  (call.op = "verifySwi" /\ call.before \in {"tampered", "broken"}) =>
    ret = Returned(ERROR_VERIFICATION)

\* C6, amended: with one byte changed outside the signature member, verifySwi
\* with the same root never returns SUCCESS; it returns ERROR_VERIFICATION
\* whenever the changed byte is not part of the zip structure verifySwi reads
\* (the end record, the central directory, the signature member's local
\* header).
C6_TamperDetected ==
  /\ (call.op = "verifySwi" /\ call.before = "tampered") =>
       ret = Returned(ERROR_VERIFICATION)
  /\ (call.op = "verifySwi" /\ call.before = "broken") =>
       ret # Returned(VERIFY_SUCCESS)

\* a byte of another member has been changed and verifySwi has run
C6_Witness ==
  /\ call.op = "verifySwi" /\ call.before = "tampered"
  /\ fs[call.swi].data[3] # FreshSwi.data[3]
  /\ ret = Returned(ERROR_VERIFICATION)

\* C7: verifySwi on a container whose record is well formed and carries the
\* signing certificate, with a root that did not sign that certificate (a
\* file, or the compiled-in default), returns ERROR_CERT_MISMATCH whether the
\* signature in the record is valid ("signed") or not ("written").
C7_WrongRoot ==
  ( /\ call.op = "verifySwi"
    /\ call.before \in {"signed", "written"}
    /\ call.root \in {"signing.crt", ROOT_CA_FILE_NAME} )
  => ret = Returned(ERROR_CERT_MISMATCH)

\* the default root on a container whose signature is valid
C7_Witness ==
  /\ call.op = "verifySwi" /\ call.before = "signed"
  /\ call.root = ROOT_CA_FILE_NAME
  /\ ret = Returned(ERROR_CERT_MISMATCH)

\* C8: once signSwi has written the record it has run verifySwi; it returns
\* normally only if it wrote and verifySwi returned SUCCESS, and for every
\* other result of verifySwi it raises SwiSignException with
\* ERROR_FAIL_VERIFICATION, the record staying in the file.
C8_PostSignVerification ==
  call.op = "signSwi" =>
    /\ ret.wrote => ret.verified # NotRun
    /\ ret.exc = "" => ret.wrote /\ ret.verified = Returned(VERIFY_SUCCESS)
    /\ (ret.wrote /\ ret.verified.exc = "" /\ ret.verified.code # VERIFY_SUCCESS) =>
         /\ ret.exc = "SwiSignException" /\ ret.code = ERROR_FAIL_VERIFICATION
         /\ SigMemberBytes(call.swi) = ret.record
         /\ ret.record # Repeat(0, Len(ret.record))

\* signed with a root the certificate does not chain to
C8_Witness ==
  /\ call.op = "signSwi" /\ call.root = "signing.crt" /\ ret.wrote
  /\ ret.verified = Returned(ERROR_CERT_MISMATCH)
  /\ ret.exc = "SwiSignException" /\ ret.code = ERROR_FAIL_VERIFICATION
  /\ SigMemberBytes(call.swi) = ret.record

\* C9 as stated: verifySwi returns one of the VERIFY_SWI_RESULT values and no
\* exception reaches the caller.
C9_VerifyNeverRaises ==
  call.op = "verifySwi" => ret.exc = "" /\ ret.code \in VERIFY_SWI_RESULT

\* C10: after prepareSwi with size S has succeeded on an unsigned container,
\* the container holds exactly one signature member, whose S bytes, found at
\* the offset getNullSigInfo gives, are zero; and verifySwi on a prepared
\* container returns ERROR_SIGNATURE_FORMAT, for every root.
C10_PlaceholderRoundTrip ==
  /\ (call.op = "prepareSwi" /\ call.before = "unsigned" /\ ret.exc = "") =>
       LET zf == ZipFile(fs[call.target])
           name == getSigFileName(call.target)
       IN /\ zf.exc = ""
          /\ Cardinality({k \in 1..Len(zf.infos) : zf.infos[k].name = name}) = 1
          /\ getinfo(zf, name).file_size = call.size
          /\ getNullSigInfo(call.target, fs[call.target]).exc = ""
          /\ SigMemberBytes(call.target) = Repeat(0, call.size)
  /\ (call.op = "verifySwi" /\ call.before = "prepared") =>
       ret = Returned(ERROR_SIGNATURE_FORMAT)

\* a prepared container has been verified with the matching root
C10_Witness ==
  /\ call.op = "verifySwi" /\ call.before = "prepared" /\ call.root = "root.crt"
  /\ SigMemberBytes(call.swi) = Repeat(0, FitSize + MaxPad)
  /\ ret = Returned(ERROR_SIGNATURE_FORMAT)


\* the members of the container f that have the name name, as zip reads them
MembersNamed(f, name) ==
  LET named(ms) == SelectSeq(ms, LAMBDA m : m.name = name)
  IN named(ZipMembers(f).ms)

\* C11: prepareSwi on a container that already has a signature member: with
\* forceSign false it raises SwiSignException( ALREADY_SIGNED ) and the
\* container is what it was; with forceSign true it returns, the other
\* members are what they were, and the container holds exactly one signature
\* member, made of size zero bytes.
C11_PrepareAlreadySigned ==
  [][ ( /\ call = Idle
        /\ call'.op = "prepareSwi"
        /\ MembersNamed(fs[call'.swi], getSigFileName(call'.target)) # <<>> )
      => IF ~call'.forceSign
           THEN /\ ret'.exc = "SwiSignException" /\ ret'.code = ALREADY_SIGNED
                /\ fs'[call'.target] = fs[call'.swi]
         ELSE /\ ret'.exc = ""
              /\ MembersNamed(fs'[call'.target], getSigFileName(call'.target))
                   = <<Member(getSigFileName(call'.target), Repeat(0, call'.size))>>
              /\ SelectSeqNot(ZipMembers(fs'[call'.target]).ms,
                              getSigFileName(call'.target))
                   = SelectSeqNot(ZipMembers(fs[call'.swi]).ms,
                                  getSigFileName(call'.target)) ]_vars

\* a signed container has been prepared again by force: the record is gone and
\* the placeholder is in its place
C11_Witness ==
  /\ call.op = "prepareSwi" /\ call.before = "signed" /\ call.forceSign
  /\ ret.exc = "" /\ stage[call.target] = "prepared"

\* C12: re-sign requires force.  signSwi on a container whose signature member
\* already holds a record (not the placeholder's zero bytes) fails with
\* SwiSignException( ALREADY_SIGNED ) and leaves the record as it is; signSwi
\* takes no force option, so this is every signSwi call on such a container.
C12_ResignRequiresForce ==
  ( /\ call.op = "signSwi"
    /\ call.before \in {"written", "signed"} )
  => /\ ret.exc = "SwiSignException" /\ ret.code = ALREADY_SIGNED
     /\ ~ret.wrote

\* C13: signSwi on a prepared container fails with SwiSignException(
\* ERROR_INPUT_FILES ) when the text of the signature file does not
\* base64-decode, and when the record for the certificate and the signature
\* text needs more bytes than the placeholder has; in both cases the container
\* holds the bytes it held before the call.
C13_BadInputsRefused ==
  ( /\ call.op = "signSwi"
    /\ call.before = "prepared"
    /\ \/ call.signatureFile # NoSource /\ b64decode(call.sigText).exc # ""
       \/ call.size < RecordLen(b64encode(SigningCert), call.sigText) )
  => /\ ret.exc = "SwiSignException" /\ ret.code = ERROR_INPUT_FILES
     /\ fs[call.swi].data = call.digest

\* C14: signSwi on a zip container without a signature member raises
\* SwiSignException( ERROR_NO_NULL_SIG ), and on a file that is no zip archive
\* SwiSignException( ERROR_NOT_A_SWI ), whatever the signature file, the key
\* and the certificate are: no signature is made and the container is left
\* as it was.
C14_SignWithoutPlaceholder ==
  [][ ( /\ call = Idle
        /\ call'.op = "signSwi"
        /\ \/ ~is_zipfile(fs[call'.swi])
           \/ MembersNamed(fs[call'.swi], getSigFileName(call'.swi)) = <<>> )
      => /\ ret'.exc = "SwiSignException"
         /\ ret'.code = IF is_zipfile(fs[call'.swi]) THEN ERROR_NO_NULL_SIG
                        ELSE SIGN_ERROR_NOT_A_SWI
         /\ ~ret'.wrote
         /\ fs' = fs /\ oracle' = oracle ]_vars

\* signSwi was given a signature file that is not base64 and a certificate
\* that does not exist, on an image without placeholder
C14_Witness ==
  /\ call.op = "signSwi" /\ call.before = "unsigned"
  /\ call.cert = "missing.crt" /\ call.signatureFile # NoSource
  /\ sigFile = File(NonAsciiSignatureText)
  /\ ret.code = ERROR_NO_NULL_SIG

\* the value the record data gives for key: that of the last line that splits
\* on ":" into exactly two parts, the first being key; empty without such a line
FieldValue(data, key) ==
  LET parts(k) == Split(Utf8Decode(Lines(data)[k]), COLON)
      given == {k \in 1..Len(Lines(data)) : Len(parts(k)) = 2 /\ parts(k)[1] = key}
  IN IF given = {} THEN <<>>
     ELSE StrStrip(parts(CHOOSE k \in given : \A j \in given : j <= k)[2])

\* C15: verifySwi returns ERROR_NOT_A_SWI for a file that is no zip archive;
\* else ERROR_SIGNATURE_FILE when the archive has no signature member; else
\* ERROR_SIGNATURE_FORMAT exactly when the hash algorithm, the decoded
\* certificate or the decoded signature the member gives is empty, whatever
\* the certificate, the root and the signature are.
C15_EarlyVerifyOutcomes ==
  call.op = "verifySwi"
  => IF ~is_zipfile(fs[call.swi]) THEN ret = Returned(VERIFY_ERROR_NOT_A_SWI)
     ELSE IF MembersNamed(fs[call.swi], getSigFileName(call.swi)) = <<>>
       THEN ret = Returned(ERROR_SIGNATURE_FILE)
     ELSE ( ret = Returned(ERROR_SIGNATURE_FORMAT)
            <=> \/ FieldValue(SigMemberBytes(call.swi), KEY_HashAlgorithm) = <<>>
                \/ base64Decode(FieldValue(SigMemberBytes(call.swi), KEY_IssuerCert)).data = <<>>
                \/ base64Decode(FieldValue(SigMemberBytes(call.swi), KEY_Signature)).data = <<>> )

\* a record with a certificate that is none and a bad root, but without a
\* signature because its line has a second colon: the format is reported
C15_Witness ==
  /\ call.op = "verifySwi" /\ call.before = "forged" /\ call.root = "bad.crt"
  /\ FieldValue(SigMemberBytes(call.swi), KEY_IssuerCert) = b64encode(<<98, 97, 100>>)
  /\ FieldValue(SigMemberBytes(call.swi), KEY_HashAlgorithm) = SIGN_HASH
  /\ \E k \in 1..Len(SigMemberBytes(call.swi)) : SigMemberBytes(call.swi)[k] = 120
  /\ ret = Returned(ERROR_SIGNATURE_FORMAT)

\* C16: when the sign command fails on an image with several optimizations,
\* the image holds no signature member of an optimization and no placeholder
\* that it did not hold before the command.
C16_NoPartialCommit ==
  ( /\ call.op = "sign" /\ ret.exc # ""
    /\ call.manifest.exc = "" /\ Len(call.manifest.optims) > 1
    /\ DEFAULT \notin {call.manifest.optims[k] : k \in 1..Len(call.manifest.optims)} )
  => \A name \in {OptimFiles(<<65>>).member, OptimFiles(<<66>>).member, getSigFileName(call.swi)} :
       MembersNamed(fs[call.swi], name) # <<>> => MembersNamed(call.image, name) # <<>>

\* C17: the sign command takes the single-image path exactly when the image
\* has no manifest of optimizations, or the manifest is empty, has one entry
\* or has the entry DEFAULT; otherwise it takes the recursive path.
C17_SinglePathApplicability ==
  ( /\ call.op = "sign" /\ ret.path # "none" /\ call.manifest.exc = "" )
  => ( ret.path = "single"
       <=> \/ call.manifest.none
           \/ Len(call.manifest.optims) <= 1
           \/ DEFAULT \in {call.manifest.optims[k] : k \in 1..Len(call.manifest.optims)} )

\* C18: when the sign command or prepareSwi is back, with or without an
\* exception, no file of its temporary directory is left.
C18_TemporaryStateRemoved ==
  /\ call.op = "sign" => \A n \in DOMAIN ret.workDir : ~ret.workDir[n].exists
  /\ call.op = "prepareSwi" => \A n \in DOMAIN ret.tmpDir : ~ret.tmpDir[n].exists

\* a sign command that ended with an exception of another kind than
\* SwiSignException while files were in its directory
C18_Witness ==
  /\ call.op = "sign" /\ ret.exc \notin {"", "SwiSignException"}
  /\ \E n \in DOMAIN ret.left : ret.left[n].exists
  /\ \A n \in DOMAIN ret.workDir : ~ret.workDir[n].exists

\* the codes of SWI_SIGN_RESULT for failures
SignFailureCodes ==
  {ALREADY_SIGNED, ERROR_FAIL_VERIFICATION, ERROR_NO_NULL_SIG, SIGN_ERROR_NOT_A_SWI,
   ERROR_INPUT_FILES, ERROR_NO_SIGNATURE_FILE_PROVIDED, ERROR_NO_SIGNING_SERVICE,
   ERROR_SIGNING_SERVICE_FAILED, ERROR_SIGNATURE_INSERTION_FAILED,
   ERROR_SIGNATURE_EXTRACTION_FAILED, INTERNAL_ERROR}

\* C19: a failure of prepareSwi, signSwi or the sign command reaches the
\* caller as SwiSignException with a code of SWI_SIGN_RESULT, never as another
\* exception.
C19_ClosedErrorSet ==
  ( call.op \in {"prepareSwi", "signSwi", "sign"} /\ ret.exc # "" )
  => ret.exc = "SwiSignException" /\ ret.code \in SignFailureCodes

\* C20: the prepare and sign commands exit with 0 exactly on success, with
\* the code of the outcome when the operation failed with one, and never with
\* the code of an outcome that did not occur.
C20_ExitCodes ==
  /\ call.op \in {"prepareSwi", "sign"}
     => /\ ret.status = SIGN_SUCCESS <=> ret.exc = ""
        /\ ret.exc = "SwiSignException" => ret.status = ret.code
        /\ ret.exc \notin {"", "SwiSignException", "IOError", "BIOError", "EVPError"}
           => ret.status \notin SignFailureCodes
  /\ call.op = "sign"
     => /\ ret.typerStatus = SIGN_SUCCESS <=> ret.exc = ""
        /\ ret.exc = "SwiSignException" => ret.typerStatus = ret.code

\* C21: the sign command on a zip archive without a version member does not
\* end with ERROR_NOT_A_SWI but goes the single-image path.
C21_ZipWithoutVersionIsSigned ==
  ( /\ call.op = "sign" /\ is_zipfile(call.image)
    /\ MembersNamed(call.image, NAME_version) = <<>> )
  => /\ ~(ret.exc = "SwiSignException" /\ ret.code = SIGN_ERROR_NOT_A_SWI)
     /\ ret.path = "single"

\* C22: a successful prepareSwi with an outfile leaves the input container as
\* it was; the outfile is the input with one member more, the zero-filled
\* placeholder under the signature name that goes with the outfile's name,
\* and the digest returned is that of the outfile.
C22_OutfileLeavesInput ==
  [][ ( /\ call = Idle /\ call'.op = "prepareSwi"
        /\ call'.outfile # NoOutfile /\ ret'.exc = "" )
      => /\ fs'[call'.swi] = fs[call'.swi]
         /\ \E name \in {IF call'.outfile = "out.swix" THEN SWIX_SIG_FILE_NAME
                         ELSE SWI_SIG_FILE_NAME} :
              /\ MembersNamed(fs'[call'.outfile], name)
                   = <<Member(name, Repeat(0, call'.size))>>
              /\ SelectSeq(ZipMembers(fs'[call'.outfile]).ms, LAMBDA m : m.name # name)
                   = SelectSeq(ZipMembers(fs[call'.swi]).ms, LAMBDA m : m.name # name)
         /\ ret'.val = generateHash(fs'[call'.outfile]) ]_vars

\* a signed image prepared into out.swix: the input keeps its signature and
\* the outfile has a placeholder under the name for extensions
C22_Witness ==
  /\ call.op = "prepareSwi" /\ call.outfile = "out.swix" /\ ret.exc = ""
  /\ call.before = "signed"
  /\ MembersNamed(fs["EOS.swi"], SWIX_SIG_FILE_NAME) = <<>>
  /\ MembersNamed(fs["out.swix"], SWIX_SIG_FILE_NAME) # <<>>

\* C23: a record with its three fields set whose hash algorithm is not
\* SHA-256 gets ERROR_HASH_ALGORITHM from verifySwi, whatever its certificate
\* and the root certificate are.
C23_HashAlgorithmFirst ==
  ( /\ call.op = "verifySwi" /\ is_zipfile(fs[call.swi])
    /\ MembersNamed(fs[call.swi], getSigFileName(call.swi)) # <<>>
    /\ FieldValue(SigMemberBytes(call.swi), KEY_HashAlgorithm) \notin {<<>>, SIGN_HASH}
    /\ base64Decode(FieldValue(SigMemberBytes(call.swi), KEY_IssuerCert)).data # <<>>
    /\ base64Decode(FieldValue(SigMemberBytes(call.swi), KEY_Signature)).data # <<>> )
  => ret = Returned(ERROR_HASH_ALGORITHM)

\* C24: signSwi, when it writes, writes as many bytes as the signature member
\* is recorded to hold, at the offset of the member's data: the length of the
\* container, every byte outside that range and the zip directory with its
\* members are as before, whether verification then succeeds or fails; when
\* it does not write, the files are as before.
C24_PatchFrame ==
  [][ ( call = Idle /\ call'.op = "signSwi" )
      => IF ~ret'.wrote THEN fs' = fs
         ELSE \E info \in {getNullSigInfo(call'.swi, fs[call'.swi])} :
                /\ ret'.offset = info.offset
                /\ Len(ret'.record) = info.fileSize
                /\ Len(fs'[call'.swi].data) = Len(fs[call'.swi].data)
                /\ SubSeq(fs'[call'.swi].data, info.offset + 1, info.offset + info.fileSize)
                     = ret'.record
                /\ \A i \in 1..Len(fs[call'.swi].data) :
                     (i <= info.offset \/ i > info.offset + info.fileSize)
                     => fs'[call'.swi].data[i] = fs[call'.swi].data[i]
                /\ ZipFile(fs'[call'.swi]) = ZipFile(fs[call'.swi])
                /\ \A c \in DOMAIN fs \ {call'.swi} : fs'[c] = fs[c] ]_vars

\* a record written over the placeholder that then fails verification
C24_Witness ==
  /\ call.op = "signSwi" /\ call.before = "prepared" /\ ret.wrote
  /\ ret.exc = "SwiSignException" /\ ret.code = ERROR_FAIL_VERIFICATION
  /\ SubSeq(fs[call.swi].data, ret.offset + 1, ret.offset + call.size) = ret.record

\* C25: when the record does not fit the placeholder, the exception tells by
\* how many bytes, n, and the size S + n; the same record is encoded with no
\* filler at size S + n and is refused at size S + n - 1.
C25_OverflowReport ==
  ( call.op = "getBytes" /\ call.size < RecordLen(call.cert, call.signature) )
  => LET sized(s) == [NewSwiSignature(s, SIGN_HASH, call.cert, call.signature)
                        EXCEPT !.crcpadding = call.crcpadding]
     IN /\ ret.exc = "SwiSignException" /\ ret.code = ERROR_INPUT_FILES
        /\ ret.exceeds = RecordLen(call.cert, call.signature) - call.size
        /\ ret.atLeast = call.size + ret.exceeds
        /\ getBytes(sized(ret.atLeast)).exc = ""
        /\ Len(getBytes(sized(ret.atLeast)).data) = ret.atLeast
        /\ SubSeq(getBytes(sized(ret.atLeast)).data, 1, ret.atLeast - 4)
             = RecordText(RecordLen(call.cert, call.signature), call.cert, call.signature)
        /\ getBytes(sized(ret.atLeast - 1)).exc = "SwiSignException"

\* a placeholder three bytes too short for a record with certificate and
\* signature
C25_Witness ==
  /\ call.op = "getBytes" /\ call.cert # <<>> /\ call.signature # <<>>
  /\ ret.exc = "SwiSignException" /\ ret.exceeds = 3
  /\ ret.atLeast = RecordLen(call.cert, call.signature)

\* the names of the members of a container, in the order of its directory
MemberNames(f) == [k \in 1..Len(ZipMembers(f).ms) |-> ZipMembers(f).ms[k].name]

\* the digest of the sub-image of an optimization once it holds a placeholder
PreparedSubImageHash(optim) ==
  prepareSwi([n \in {OptimFiles(optim).image} |-> SubImage(optim)],
             OptimFiles(optim).image, NoOutfile, TRUE, SWI_SIGNATURE_MAX_SIZE).val

\* C26: in a sign command on an image with two optimizations, wherever the
\* command stops: a sub-image is there or done only if swadapt was extracted;
\* the second is there or done only if the first is done; one that is done
\* was signed over its prepared digest, its signature is in "<name>.signature"
\* and its sub-image is deleted; the image is changed only when both are
\* done, and then holds their signatures as members, in manifest order, after
\* its old members and before the placeholder; on success it verifies.
C26_WaterfallOrder ==
  ( /\ call.op = "sign" /\ ret.path = "recursive" /\ Len(call.manifest.optims) = 2 )
  => LET first == call.manifest.optims[1]
         second == call.manifest.optims[2]
         left == ret.left
         done(o) == left[OptimFiles(o).signature].exists
         there(o) == left[OptimFiles(o).image].exists
         sigName == getSigFileName(call.swi)
     IN /\ (there(first) \/ done(first) \/ there(second) \/ done(second))
           => left["swadapt"].exists
        /\ (there(second) \/ done(second)) => done(first)
        /\ \A o \in {first, second} :
             done(o) => /\ ~there(o)
                        /\ [key |-> K_SIGN, msg |-> PreparedSubImageHash(o)] \in oracle
                        /\ verifySignatureFormat(updateFields(left[OptimFiles(o).signature].data))
        /\ fs[call.swi] # call.image
           => /\ done(first) /\ done(second)
              /\ \E tail \in {<<>>, <<sigName>>} :
                   MemberNames(fs[call.swi])
                     = SelectSeq(MemberNames(call.image), LAMBDA n : n # sigName)
                       \o <<OptimFiles(first).member, OptimFiles(second).member>> \o tail
              /\ \A o \in {first, second} :
                   MembersNamed(fs[call.swi], OptimFiles(o).member)
                     = <<Member(OptimFiles(o).member, left[OptimFiles(o).signature].data)>>
        /\ ret.exc = ""
           => /\ fs[call.swi] # call.image
              /\ verifySwi(call.swi, fs[call.swi], call.root, oracle) = Returned(VERIFY_SUCCESS)

\* the signing service failed for the second optimization: the first is done,
\* the second sub-image is there and the image is as it was
C26_Witness ==
  /\ call.op = "sign" /\ ret.path = "recursive" /\ Len(call.manifest.optims) = 2
  /\ ret.code = ERROR_SIGNING_SERVICE_FAILED
  /\ ret.left["A.signature"].exists /\ ret.left["B.swi"].exists
  /\ ~ret.left["B.signature"].exists /\ fs[call.swi] = call.image

\* C27: the sign command with a signature file and no key on an image that
\* goes the recursive path fails, changes no file and has nothing signed.
C27_SignatureFileUnsupported ==
  ( /\ call.op = "sign" /\ ret.path = "recursive"
    /\ call.signatureFile # NoSource /\ call.signingKeyFile = NoSource )
  => /\ ret.exc # ""
     /\ fs[call.swi] = call.image
     /\ oracle = {}

SigMemberOf(path, f) ==
  LET at(info) == [offset |-> info.offset, size |-> info.fileSize,
                   data |-> SubSeq(f.data, info.offset + 1, info.offset + info.fileSize)]
  IN at(getNullSigInfo(path, f))

\* the signature member was written anew: the container differs from the one
\* signSwi made only in bytes of the member, and the two members give the
\* same hash algorithm, decoded certificate and decoded signature
SameDecodedValues ==
  LET now == SigMemberOf(call.swi, fs[call.swi])
      was == SigMemberOf(call.swi, SignedSwi(now.size).files[call.swi])
  IN /\ now.offset = was.offset
     /\ ZeroFilled(fs[call.swi].data, now.offset, now.size)
          = ZeroFilled(SignedSwi(now.size).files[call.swi].data, was.offset, was.size)
     /\ FieldValue(now.data, KEY_HashAlgorithm) = FieldValue(was.data, KEY_HashAlgorithm)
     /\ base64Decode(FieldValue(now.data, KEY_IssuerCert))
          = base64Decode(FieldValue(was.data, KEY_IssuerCert))
     /\ base64Decode(FieldValue(now.data, KEY_Signature))
          = base64Decode(FieldValue(was.data, KEY_Signature))

\* the two members have the same checksum
SameChecksum ==
  LET now == SigMemberOf(call.swi, fs[call.swi])
  IN crc32(now.data)
       = crc32(SigMemberOf(call.swi, SignedSwi(now.size).files[call.swi]).data)

\* the outcome of verifySwi is the one the container signSwi made gets
SameOutcome ==
  ret = verifySwi(call.swi,
                  SignedSwi(SigMemberOf(call.swi, fs[call.swi]).size).files[call.swi],
                  call.root, oracle)

\* C29 as stated: a container that differs from a signed one only in bytes of
\* the signature member which leave the three decoded values as they were
\* gets the same outcome from verifySwi with the same root.
C29_OutcomeThroughFields ==
  ( call.op = "verifySwi" /\ SameDecodedValues ) => SameOutcome

\* C29: the same, for a member whose checksum is also as it was.
C29_OutcomeThroughFieldsAndChecksum ==
  ( call.op = "verifySwi" /\ SameDecodedValues /\ SameChecksum ) => SameOutcome

\* a member with another version, filler and key and a suffix chosen for the
\* checksum verifies
C29_Witness ==
  /\ call.op = "verifySwi" /\ call.before = "rewritten" /\ call.root = "root.crt"
  /\ SameDecodedValues /\ SameChecksum
  /\ SigMemberOf(call.swi, fs[call.swi]).data
       # SigMemberOf(call.swi, SignedSwi(SigMemberOf(call.swi, fs[call.swi]).size).files[call.swi]).data
  /\ ret = Returned(VERIFY_SUCCESS)

\* C30: for a record getBytes encodes with a certificate and a signature of
\* one line each, whatever the four suffix bytes are, updateFields gives the
\* hash algorithm SHA-256 and the bytes the certificate and the signature
\* texts decode to, so a record with both passes verifySignatureFormat.
C30_RecordRoundTrip ==
  ( /\ call.op = "getBytes" /\ ret.exc = ""
    /\ \A i \in 1..Len(call.signature) : call.signature[i] # NL )
  => /\ updateFields(ret.data).exc = ""
     /\ updateFields(ret.data).hashAlgo = SIGN_HASH
     /\ updateFields(ret.data).cert = b64decode(call.cert).data
     /\ updateFields(ret.data).signature = b64decode(call.signature).data
     /\ (call.cert # <<>> /\ call.signature # <<>>)
        => verifySignatureFormat(updateFields(ret.data))

\* a suffix with a newline, a colon and a byte that is not UTF-8
C30_Witness ==
  /\ call.op = "getBytes" /\ ret.exc = ""
  /\ call.cert = b64encode(SigningCert) /\ call.signature = FakeSignatureText
  /\ call.crcpadding = <<NL, 255, COLON, 255>>
  /\ SubSeq(ret.data, call.size - 3, call.size) = <<NL, 255, COLON, 255>>
  /\ updateFields(ret.data).cert = SigningCert

=============================================================================
